---- MODULE Spec2Model ----
(***************************************************************************)
(* ShardX bottleneck analyzer (tools/performance/bottleneck_analyzer.py)   *)
(* and two helpers of the Python SDK (sdk/python/shardx_sdk).              *)
(*                                                                         *)
(* A value decoded from a JSON file is a record that names its Python type *)
(* in tag, so that no two values of different types are equal:             *)
(*   None         [tag |-> "None"]                                         *)
(*   True, False  [tag |-> "bool", bool |-> b]                             *)
(*   int          [tag |-> "int", int |-> n]                               *)
(*   str          [tag |-> "str", str |-> s]                               *)
(*   list         [tag |-> "list", list |-> <<item, ...>>]                 *)
(*   dict         [tag |-> "dict", dict |-> <<[key, value], ...>>], the    *)
(*                items in insertion order with strs as keys               *)
(*   float        [tag |-> "float", cls, neg, hi, mid, lo, exp], an        *)
(*                IEEE 754 binary64 number (see Float below)               *)
(* The dicts and lists the program builds itself have a fixed shape; they  *)
(* are TLA+ records and sequences ({} is EmptyDict), their strs are TLA+   *)
(* strings and their len() and loop counters are TLA+ integers.  A leaf    *)
(* they take from a JSON file stays the tagged value it was decoded to.    *)
(* A raise is a result record [raised |-> <exception name>, ...].          *)
(* A text is a TLA+ string of the characters a read in text mode returns.  *)
(* The fixed Japanese message texts are replaced by ASCII tags; the values *)
(* interpolated into a description are kept as the fields of a record.     *)
(***************************************************************************)
EXTENDS Integers, Sequences, FiniteSets, TLC

VARIABLES
    files,              \* the input files main finds, by kind
    args_type,          \* args.type: the benchmarks to read
    args_format,        \* args.format: the reports to write
    unwritable,         \* the files of the output directory that cannot be
                        \* opened for writing
    benchmark_results,  \* main: parsed benchmark documents, by category
    cpu_profile,        \* main: parsed CPU profile, or None
    memory_profile,     \* main: parsed memory profile, or None
    threshold,          \* args.threshold, in percent, a float
    analysis_results,   \* main: the AnalysisResult dict being built
    charts,             \* main: the charts generate_charts returned
    reports,            \* main: the reports written so far, in order
    output,             \* the files of the output directory, by name
    raised,             \* the exception that ended the run and the function that
                        \* raised it, or NotRaised
    pc,                 \* position in the run
    search_directory,   \* find_latest_files: the directory searched
    search_pattern,     \* find_latest_files: the pattern
    latest,             \* find_latest_files: what the call returned, or NotCalled
    max_retries,        \* retry: the number of attempts allowed
    initial_delay,      \* retry: the first delay, in seconds
    retry_i,            \* retry: the loop variable i
    fn_calls,           \* retry: the outcomes of the calls of fn so far
    slept,              \* retry: the delays slept so far, in order
    last_exception,     \* retry: the local last_exception
    retry_result,       \* retry: what the call returned or raised, or NotCalled
    timeout,            \* wait_for_confirmation: timeout, in seconds
    interval,           \* wait_for_confirmation: interval, in seconds
    elapsed,            \* wait_for_confirmation: time.time() - start_time
    polls,              \* wait_for_confirmation: the status requests so far
    wait_result         \* wait_for_confirmation: what the call returned or
                        \* raised, or NotCalled

vars == <<files, args_type, args_format, unwritable, benchmark_results,
          cpu_profile, memory_profile, threshold, analysis_results, charts,
          reports, output, raised, pc, search_directory, search_pattern, latest,
          max_retries, initial_delay, retry_i, fn_calls, slept, last_exception,
          retry_result, timeout, interval, elapsed, polls, wait_result>>

----------------------------------------------------------------------------
(* Python values *)

None == [tag |-> "None"]

EmptyDict == [k \in {} |-> None]

\* d[key] = value on a dict the program builds
DictSet(d, key, value) ==
    [k \in (DOMAIN d) \cup {key} |-> IF k = key THEN value ELSE d[k]]

Ok(v) == [raised |-> "none", value |-> v]

Raise(e) == [raised |-> e, value |-> None]

\* "r; Rest": the statements after one that may raise run, with its value,
\* only when it did not raise
Then(r, Rest(_)) == IF r.raised # "none" THEN Raise(r.raised) ELSE Rest(r.value)

\* "try: r; Rest / except: otherwise"
Try(r, Rest(_), otherwise) == IF r.raised # "none" THEN otherwise ELSE Rest(r.value)

RECURSIVE Flatten(_)
Flatten(lists) == IF lists = <<>> THEN <<>> ELSE Head(lists) \o Flatten(Tail(lists))

----------------------------------------------------------------------------
(* float: IEEE 754 binary64, round to nearest, ties to even *)

\* A finite float is (-1)^neg * (hi * 2^36 + mid * 2^18 + lo) * 2^exp, the
\* 53 bits of its significand in three limbs of 18 bits.  A normal number has
\* 2^16 <= hi < 2^17 and -1074 <= exp <= 971, a subnormal one hi < 2^16 and
\* exp = -1074, and zero hi = mid = lo = 0 and exp = 0.
Limb == 262144

HiMin == 65536

HiMax == 131072

MinExp == -1074

MaxExp == 971

Float(neg, hi, mid, lo, exp) ==
    [tag |-> "float", cls |-> "finite", neg |-> neg,
     hi |-> hi, mid |-> mid, lo |-> lo, exp |-> exp]

FloatZero(neg) == Float(neg, 0, 0, 0, 0)

FloatInf(neg) ==
    [tag |-> "float", cls |-> "inf", neg |-> neg,
     hi |-> 0, mid |-> 0, lo |-> 0, exp |-> 0]

FloatNaN ==
    [tag |-> "float", cls |-> "nan", neg |-> FALSE,
     hi |-> 0, mid |-> 0, lo |-> 0, exp |-> 0]

IsNaN(x) == x.cls = "nan"

IsZero(x) == x.cls = "finite" /\ x.hi = 0 /\ x.mid = 0 /\ x.lo = 0

RECURSIVE Pow2(_)
Pow2(n) == IF n = 0 THEN 1 ELSE 2 * Pow2(n - 1)

\* the number of bits of n >= 0
RECURSIVE BitLen(_)
BitLen(n) == IF n = 0 THEN 0 ELSE 1 + BitLen(n \div 2)

\* float(n) of an int of at most 31 bits: exact
IntToFloat(n) ==
    IF n = 0 THEN FloatZero(FALSE)
    ELSE LET a == IF n < 0 THEN 0 - n ELSE n
             s == 53 - BitLen(a)
         IN  IF s >= 36 THEN Float(n < 0, a * Pow2(s - 36), 0, 0, 0 - s)
             ELSE Float(n < 0, a \div Pow2(36 - s),
                        (a % Pow2(36 - s)) * Pow2(s - 18), 0, 0 - s)

\* A natural number of any size is the sequence of its limbs, lowest first,
\* the highest not 0 (<<>> is 0).  The operators that walk the limbs split
\* them in halves, so that their depth stays small for a long number.
BigTrim(a) ==
    LET used == {i \in 1..Len(a) : a[i] # 0}
    IN  IF used = {} THEN <<>>
        ELSE SubSeq(a, 1, CHOOSE i \in used : \A j \in used : i >= j)

BigOfFloat(x) == BigTrim(<<x.lo, x.mid, x.hi>>)

BigLimb(a, i) == IF i <= Len(a) THEN a[i] ELSE 0

\* the limbs from..to of a times k, plus carry: the limbs of the product and
\* the carry out of them
RECURSIVE BigMulSmallRange(_, _, _, _, _)
BigMulSmallRange(a, k, from, to, carry) ==
    IF from = to
    THEN LET t == a[from] * k + carry
         IN  [limbs |-> <<t % Limb>>, carry |-> t \div Limb]
    ELSE LET middle == (from + to) \div 2
             low == BigMulSmallRange(a, k, from, middle, carry)
             high == BigMulSmallRange(a, k, middle + 1, to, low.carry)
         IN  [limbs |-> low.limbs \o high.limbs, carry |-> high.carry]

\* a * k + carry, for 0 <= k < 2^13 and 0 <= carry < 2^18
BigMulSmall(a, k, carry) ==
    IF a = <<>> THEN (IF carry = 0 THEN <<>> ELSE <<carry>>)
    ELSE LET p == BigMulSmallRange(a, k, 1, Len(a), carry)
         IN  BigTrim(Append(p.limbs, p.carry))

\* the limbs from..to of a divided by k, r being the remainder of the limbs
\* above them: the limbs of the quotient, highest first, and the remainder
RECURSIVE BigDivSmallRange(_, _, _, _, _)
BigDivSmallRange(a, k, from, to, r) ==
    IF from = to
    THEN LET t == r * Limb + a[from]
         IN  [q |-> <<t \div k>>, r |-> t % k]
    ELSE LET middle == (from + to) \div 2
             high == BigDivSmallRange(a, k, middle + 1, to, r)
             low == BigDivSmallRange(a, k, from, middle, high.r)
         IN  [q |-> high.q \o low.q, r |-> low.r]

Reverse(s) == [i \in 1..Len(s) |-> s[Len(s) + 1 - i]]

\* quotient and remainder of a by k, for 0 < k < 2^13
BigDivSmall(a, k) ==
    IF a = <<>> THEN [q |-> <<>>, r |-> 0]
    ELSE LET d == BigDivSmallRange(a, k, 1, Len(a), 0)
         IN  [q |-> BigTrim(Reverse(d.q)), r |-> d.r]

\* the limbs from..to of a + b + carry and the carry out of them
RECURSIVE BigAddRange(_, _, _, _, _)
BigAddRange(a, b, from, to, carry) ==
    IF from = to
    THEN LET t == BigLimb(a, from) + BigLimb(b, from) + carry
         IN  [limbs |-> <<t % Limb>>, carry |-> t \div Limb]
    ELSE LET middle == (from + to) \div 2
             low == BigAddRange(a, b, from, middle, carry)
             high == BigAddRange(a, b, middle + 1, to, low.carry)
         IN  [limbs |-> low.limbs \o high.limbs, carry |-> high.carry]

\* a + b + carry, for carry 0 or 1
BigAdd(a, b, carry) ==
    LET n == IF Len(a) > Len(b) THEN Len(a) ELSE Len(b)
        sum == BigAddRange(a, b, 1, n, carry)
    IN  IF n = 0 THEN (IF carry = 0 THEN <<>> ELSE <<carry>>)
        ELSE BigTrim(Append(sum.limbs, sum.carry))

\* the limbs from..to of a - b - borrow and the borrow out of them
RECURSIVE BigSubRange(_, _, _, _, _)
BigSubRange(a, b, from, to, borrow) ==
    IF from = to
    THEN LET t == a[from] - BigLimb(b, from) - borrow
         IN  [limbs |-> <<t % Limb>>, borrow |-> IF t < 0 THEN 1 ELSE 0]
    ELSE LET middle == (from + to) \div 2
             low == BigSubRange(a, b, from, middle, borrow)
             high == BigSubRange(a, b, middle + 1, to, low.borrow)
         IN  [limbs |-> low.limbs \o high.limbs, borrow |-> high.borrow]

\* a - b, for a >= b
BigSub(a, b) ==
    IF a = <<>> THEN a ELSE BigTrim(BigSubRange(a, b, 1, Len(a), 0).limbs)

\* -1, 0 or 1 as a < b, a = b or a > b
BigCmp(a, b) ==
    LET differ == {i \in 1..Len(a) : i <= Len(b) /\ a[i] # b[i]}
        top == CHOOSE i \in differ : \A j \in differ : i >= j
    IN  IF Len(a) < Len(b) THEN -1
        ELSE IF Len(a) > Len(b) THEN 1
        ELSE IF differ = {} THEN 0
        ELSE IF a[top] < b[top] THEN -1
        ELSE 1

BigBitLen(a) == IF a = <<>> THEN 0 ELSE 18 * (Len(a) - 1) + BitLen(a[Len(a)])

\* a * 2^n
BigShl(a, n) ==
    IF a = <<>> THEN a
    ELSE LET limbs == n \div 18
             bits == n % 18
             low == Pow2(18 - bits)
             wide == [i \in 1..(Len(a) + 1) |->
                        (BigLimb(a, i) % low) * Pow2(bits)
                        + (IF i = 1 THEN 0 ELSE a[i - 1] \div low)]
         IN  BigTrim([i \in 1..limbs |-> 0] \o wide)

\* a \div 2^n
BigShr(a, n) ==
    LET limbs == n \div 18
        bits == n % 18
        low == Pow2(bits)
        kept == IF limbs >= Len(a) THEN <<>> ELSE SubSeq(a, limbs + 1, Len(a))
    IN  BigTrim([i \in 1..Len(kept) |->
                   (kept[i] \div low) + (BigLimb(kept, i + 1) % low) * Pow2(18 - bits)])

\* a % 2^n # 0
BigLowBitsSet(a, n) ==
    \E i \in 1..Len(a) :
        \/ i <= n \div 18 /\ a[i] # 0
        \/ i = (n \div 18) + 1 /\ a[i] % Pow2(n % 18) # 0

\* bit n of a
BigBit(a, n) == (BigLimb(a, (n \div 18) + 1) \div Pow2(n % 18)) % 2

\* the finite float of the significand m, a number of at most 53 bits
WithSignificand(neg, m, exp) ==
    Float(neg, BigLimb(m, 3), BigLimb(m, 2), BigLimb(m, 1), exp)

\* a \div 2^drop, which is q, rounded to the nearest whole number: up when
\* the bits dropped (and the part f of the number below them, when inexact)
\* are more than a half, or a half and q is odd
Nearest(a, q, drop, inexact) ==
    IF /\ BigBit(a, drop - 1) = 1
       /\ (inexact \/ BigLowBitsSet(a, drop - 1) \/ BigLimb(q, 1) % 2 = 1)
    THEN BigAdd(q, <<1>>, 0)
    ELSE q

\* the float of the rounded significand m: 54 bits after a carry out of the
\* 53, none when the number was rounded to 0
Carried(neg, m, exp) ==
    IF m = <<>> THEN FloatZero(neg)
    ELSE IF BigBitLen(m) = 54
    THEN (IF exp + 1 > MaxExp THEN FloatInf(neg) ELSE Float(neg, HiMin, 0, 0, exp + 1))
    ELSE IF exp > MaxExp THEN FloatInf(neg)
    ELSE WithSignificand(neg, m, exp)

\* the number of low bits of a that a significand of 53 bits, or the
\* smallest exponent, leaves no room for
DropBits(a, exp) ==
    IF exp + BigBitLen(a) - 53 < MinExp THEN MinExp - exp ELSE BigBitLen(a) - 53

RoundBy(neg, a, exp, inexact, drop) ==
    IF drop <= 0
    THEN (IF exp + drop > MaxExp THEN FloatInf(neg)
          ELSE WithSignificand(neg, BigShl(a, 0 - drop), exp + drop))
    ELSE Carried(neg, Nearest(a, BigShr(a, drop), drop, inexact), exp + drop)

\* the float nearest to (-1)^neg * (a + f) * 2^exp, where a > 0 and f = 0, or
\* 0 < f < 1 when inexact (then a has 55 bits or more): a significand of 53
\* bits, of fewer when the number is subnormal, inf when it is too large
RoundToFloat(neg, a, exp, inexact) == RoundBy(neg, a, exp, inexact, DropBits(a, exp))

\* a finite float other than 0 with its significand shifted to 53 bits
NormalizedBy(x, s) == WithSignificand(x.neg, BigShl(BigOfFloat(x), s), x.exp - s)

Normalized(x) ==
    IF x.hi >= HiMin THEN x ELSE NormalizedBy(x, 53 - BigBitLen(BigOfFloat(x)))

\* long division: q more is added to the quotient digit while the remainder
\* r is not below the divisor d
RECURSIVE DivCorrect(_, _, _, _, _, _, _)
DivCorrect(q, rh, rm, rl, dh, dm, dl) ==
    IF rh > dh \/ (rh = dh /\ (rm > dm \/ (rm = dm /\ rl >= dl)))
    THEN LET l == rl - dl
             m == rm - dm + (l \div Limb)
         IN  DivCorrect(q + 1, rh - dh + (m \div Limb), m % Limb, l % Limb, dh, dm, dl)
    ELSE [q |-> q, rh |-> rh, rm |-> rm, rl |-> rl]

\* the next 13 bits of the quotient: the digit q of r * 2^13 by d (r < d),
\* estimated from the leading limbs, and the remainder
DivStep(rh, rm, rl, dh, dm, dl) ==
    LET q == (rh * 8192 + (rm \div 32)) \div (dh + 1)
        t0 == (rl % 32) * 8192
        t1 == (rm % 32) * 8192 + (rl \div 32)
        t2 == (rh % 32) * 8192 + (rm \div 32)
        t3 == rh \div 32
        v0 == t0 - q * dl
        v1 == t1 - q * dm + (v0 \div Limb)
        v2 == t2 - q * dh + (v1 \div Limb)
        v3 == t3 + (v2 \div Limb)
    IN  DivCorrect(q, v3 * Limb + (v2 % Limb), v1 % Limb, v0 % Limb, dh, dm, dl)

\* the digits, 13 bits each, of n steps of the long division of r by d, and
\* the remainder after them
RECURSIVE DivDigits(_, _, _, _, _)
RECURSIVE DivNext(_, _, _)
DivNext(n, step, d) ==
    [DivDigits(n - 1, step.rh, step.rm, step.rl, d) EXCEPT !.q = <<step.q>> \o @]

DivDigits(n, rh, rm, rl, d) ==
    IF n = 0 THEN [q |-> <<>>, rh |-> rh, rm |-> rm, rl |-> rl]
    ELSE DivNext(n, DivStep(rh, rm, rl, d.hi, d.mid, d.lo), d)

\* the float of the 53 bits s.q of a quotient: rounded up when twice the
\* remainder is above the divisor d, or equal to it and the last bit is 1
DivRounded(neg, exp, d, s) ==
    LET lo == (s.q[3] % 32) * 8192 + s.q[4]
        mid == (s.q[3] \div 32) + (s.q[2] % 1024) * 256
        hi == (s.q[2] \div 1024) + s.q[1] * 8 + HiMin
        d0 == 2 * s.rl - d.lo
        d1 == 2 * s.rm - d.mid + (d0 \div Limb)
        d2 == 2 * s.rh - d.hi + (d1 \div Limb)
        above == d2 > 0 \/ (d2 = 0 /\ (d1 % Limb # 0 \/ d0 % Limb # 0))
        tie == d2 = 0 /\ d1 % Limb = 0 /\ d0 % Limb = 0
        exact == s.rh = 0 /\ s.rm = 0 /\ s.rl = 0
        up == above \/ (tie /\ lo % 2 = 1)
        l1 == IF up THEN lo + 1 ELSE lo
        m1 == mid + (l1 \div Limb)
        h1 == hi + (m1 \div Limb)
    IN  IF exp < MinExp \/ exp >= MaxExp
        THEN RoundToFloat(neg,
                          BigAdd(BigShl(<<lo, mid, hi>>, 2),
                                 IF above \/ tie THEN <<2>> ELSE <<>>, 0),
                          exp - 2, above \/ (~tie /\ ~exact))
        ELSE IF h1 = HiMax THEN Float(neg, HiMin, 0, 0, exp + 1)
        ELSE Float(neg, h1, m1 % Limb, l1 % Limb, exp)

\* a / b for the significands of 53 bits of a and b: the first bit of the
\* quotient is that of a >= b, the next 52 follow by long division
DivNormalized(a, b) ==
    LET ge == a.hi > b.hi \/ (a.hi = b.hi /\ (a.mid > b.mid \/ (a.mid = b.mid /\ a.lo >= b.lo)))
        n0 == IF ge THEN a.lo - b.lo ELSE 2 * a.lo - b.lo
        n1 == (IF ge THEN a.mid - b.mid ELSE 2 * a.mid - b.mid) + (n0 \div Limb)
        n2 == (IF ge THEN a.hi - b.hi ELSE 2 * a.hi - b.hi) + (n1 \div Limb)
    IN  DivRounded(a.neg # b.neg, a.exp - b.exp - (IF ge THEN 52 ELSE 53), b,
                   DivDigits(4, n2, n1 % Limb, n0 % Limb, b))

\* a / b for finite a and finite b # 0: 53 bits of the quotient of the
\* significands by long division, rounded by the remainder
FiniteDiv(x, y) == DivNormalized(Normalized(x), Normalized(y))

\* a / b on floats
FloatTrueDiv(a, b) ==
    IF IsZero(b) THEN Raise("ZeroDivisionError")
    ELSE IF IsNaN(a) \/ IsNaN(b) THEN Ok(FloatNaN)
    ELSE IF a.cls = "inf"
    THEN (IF b.cls = "inf" THEN Ok(FloatNaN) ELSE Ok(FloatInf(a.neg # b.neg)))
    ELSE IF b.cls = "inf" THEN Ok(FloatZero(a.neg # b.neg))
    ELSE IF IsZero(a) THEN Ok(FloatZero(a.neg # b.neg))
    ELSE Ok(FiniteDiv(a, b))

\* |a| < |b| on finite floats
MagnitudeLess(a, b) ==
    IF IsZero(b) THEN FALSE
    ELSE IF IsZero(a) THEN TRUE
    ELSE IF a.exp # b.exp THEN a.exp < b.exp
    ELSE a.hi < b.hi \/ (a.hi = b.hi /\ (a.mid < b.mid \/ (a.mid = b.mid /\ a.lo < b.lo)))

\* a < b on floats
FloatLess(a, b) ==
    IF IsNaN(a) \/ IsNaN(b) THEN FALSE
    ELSE IF a.cls = "inf" THEN a.neg /\ ~(b.cls = "inf" /\ b.neg)
    ELSE IF b.cls = "inf" THEN ~b.neg
    ELSE IF IsZero(a) /\ IsZero(b) THEN FALSE
    ELSE IF IsZero(a) THEN ~b.neg
    ELSE IF IsZero(b) THEN a.neg
    ELSE IF a.neg # b.neg THEN a.neg
    ELSE IF a.neg THEN MagnitudeLess(b, a)
    ELSE MagnitudeLess(a, b)

\* a == b on floats
FloatEq(a, b) ==
    IF IsNaN(a) \/ IsNaN(b) THEN FALSE
    ELSE IF IsZero(a) /\ IsZero(b) THEN TRUE
    ELSE a = b

FloatNeg(a) == IF IsNaN(a) THEN a ELSE [a EXCEPT !.neg = ~a.neg]

\* a difference of exponents beyond which the smaller of two numbers cannot
\* change the rounded sum
FarApart == 64

\* wide * 2^exp plus or minus small * 2^exp, wide >= small
AddAligned(neg, same, wide, small, exp) ==
    IF ~same /\ BigCmp(wide, small) = 0 THEN FloatZero(FALSE)
    ELSE RoundToFloat(neg, IF same THEN BigAdd(wide, small, 0) ELSE BigSub(wide, small),
                      exp, FALSE)

\* a + b for finite |a| >= |b| > 0
FiniteAdd(a, b) ==
    IF a.exp - b.exp > FarApart THEN a
    ELSE AddAligned(a.neg, a.neg = b.neg, BigShl(BigOfFloat(a), a.exp - b.exp),
                    BigOfFloat(b), b.exp)

\* a + b on floats
FloatAdd(a, b) ==
    IF IsNaN(a) \/ IsNaN(b) THEN FloatNaN
    ELSE IF a.cls = "inf"
    THEN (IF b.cls = "inf" /\ a.neg # b.neg THEN FloatNaN ELSE a)
    ELSE IF b.cls = "inf" THEN b
    ELSE IF IsZero(a) /\ IsZero(b) THEN FloatZero(a.neg /\ b.neg)
    ELSE IF IsZero(b) THEN a
    ELSE IF IsZero(a) THEN b
    ELSE FiniteAdd(IF MagnitudeLess(a, b) THEN b ELSE a,
                   IF MagnitudeLess(a, b) THEN a ELSE b)

\* a - b on floats
FloatSub(a, b) == FloatAdd(a, FloatNeg(b))

\* x * k on a float and an int 0 < k < 2^13
FloatTimesInt(x, k) ==
    IF x.cls # "finite" \/ IsZero(x) THEN x
    ELSE RoundToFloat(x.neg, BigMulSmall(BigOfFloat(x), k, 0), x.exp, FALSE)

DigitChars == "0123456789"

RECURSIVE Zeros(_)
Zeros(n) == IF n <= 0 THEN "" ELSE "0" \o Zeros(n - 1)

Digit(d) == SubSeq(DigitChars, d + 1, d + 1)

\* the n lowest groups of three decimal digits of a, and a \div 1000^n
RECURSIVE DecimalGroups(_, _)
DecimalGroups(a, n) ==
    IF n = 0 THEN [q |-> a, text |-> ""]
    ELSE IF n = 1
    THEN LET d == BigDivSmall(a, 1000)
         IN  [q |-> d.q,
              text |-> Digit(d.r \div 100) \o Digit((d.r \div 10) % 10) \o Digit(d.r % 10)]
    ELSE LET low == DecimalGroups(a, n \div 2)
             high == DecimalGroups(low.q, n - (n \div 2))
         IN  IF low.q = <<>>
             THEN [q |-> <<>>, text |-> Zeros(3 * (n - (n \div 2))) \o low.text]
             ELSE [q |-> high.q, text |-> high.text \o low.text]

\* the text without its leading characters c
StripLeading(text, c) ==
    LET others == {i \in 1..Len(text) : SubSeq(text, i, i) # c}
    IN  IF others = {} THEN ""
        ELSE SubSeq(text, CHOOSE i \in others : \A j \in others : i <= j, Len(text))

\* the decimal digits of a ("" for 0)
BigDigits(a) == StripLeading(DecimalGroups(a, (BigBitLen(a) \div 9) + 1).text, "0")

\* a * 10^n
RECURSIVE BigTimesPow10(_, _)
BigTimesPow10(a, n) ==
    IF a = <<>> \/ n = 0 THEN a
    ELSE IF n = 1 THEN BigMulSmall(a, 10, 0)
    ELSE IF n = 2 THEN BigMulSmall(a, 100, 0)
    ELSE IF n = 3 THEN BigMulSmall(a, 1000, 0)
    ELSE LET half == BigTimesPow10(a, n \div 2)
         IN  IF half = <<>> THEN half ELSE BigTimesPow10(half, n - (n \div 2))

\* a * 2^exp rounded to the nearest whole number, ties to the even one
NearestWhole(a, exp) ==
    IF exp >= 0 THEN BigShl(a, exp)
    ELSE Nearest(a, BigShr(a, 0 - exp), 0 - exp, FALSE)

\* the digits of a whole number of 10^-digits with the point set in
PointedText(padded, digits) ==
    SubSeq(padded, 1, Len(padded) - digits)
    \o (IF digits = 0 THEN ""
        ELSE "." \o SubSeq(padded, Len(padded) - digits + 1, Len(padded)))

FixedText(text, digits) == PointedText(Zeros(digits + 1 - Len(text)) \o text, digits)

\* format(x, '.<digits>f') of a float: the decimal number with that many
\* digits after the point nearest to x, ties to the even digit
FormatFixed(x, digits) ==
    IF x.cls = "nan" THEN "nan"
    ELSE IF x.cls = "inf" THEN (IF x.neg THEN "-inf" ELSE "inf")
    ELSE (IF x.neg THEN "-" ELSE "")
         \o FixedText(BigDigits(NearestWhole(BigTimesPow10(BigOfFloat(x), digits), x.exp)),
                      digits)

\* U+000B, U+001C to U+001F, U+0085 and U+00A0
VerticalTab == ""

FileSeparator == ""

GroupSeparator == ""

RecordSeparator == ""

UnitSeparator == ""

NextLine == ""

NoBreakSpace == " "

\* the characters str.isspace() holds of, which str.strip() removes and \s
\* matches, among the characters up to U+00FF
Whitespace ==
    {" ", "\t", "\n", "\r", "\f", VerticalTab, FileSeparator, GroupSeparator,
     RecordSeparator, UnitSeparator, NextLine, NoBreakSpace}

\* the characters float() drops around a number: not the separators U+001C
\* to U+001F
FloatWhitespace == {" ", "\t", "\n", "\r", "\f", VerticalTab, NextLine, NoBreakSpace}

Char(text, i) == SubSeq(text, i, i)

\* the text without its leading and trailing characters of the set
StripSet(text, set) ==
    LET inked == {i \in 1..Len(text) : Char(text, i) \notin set}
    IN  IF inked = {} THEN ""
        ELSE SubSeq(text, CHOOSE i \in inked : \A j \in inked : i <= j,
                          CHOOSE i \in inked : \A j \in inked : i >= j)

\* text.strip(): the text without its leading and trailing whitespace
StripWhitespace(text) == StripSet(text, Whitespace)

\* text.strip(c): the text without its leading and trailing characters c
Strip(text, c) ==
    LET others == {i \in 1..Len(text) : Char(text, i) # c}
    IN  IF others = {} THEN ""
        ELSE SubSeq(text, CHOOSE i \in others : \A j \in others : i <= j,
                          CHOOSE i \in others : \A j \in others : i >= j)

IsDigit(c) == \E d \in 0..9 : Digit(d) = c

DigitValue(c) == CHOOSE d \in 0..9 : Digit(d) = c

UpperCase == "ABCDEFGHIJKLMNOPQRSTUVWXYZ"

LowerCase == "abcdefghijklmnopqrstuvwxyz"

Lower(c) ==
    IF \E i \in 1..26 : Char(UpperCase, i) = c
    THEN Char(LowerCase, CHOOSE i \in 1..26 : Char(UpperCase, i) = c)
    ELSE c

\* text.lower() == word
LowerIs(text, word) ==
    /\ Len(text) = Len(word)
    /\ \A i \in 1..Len(text) : Lower(Char(text, i)) = Char(word, i)

\* the number of digits the text starts with from position i on
DigitRun(text, i) ==
    LET stops == {j \in i..Len(text) : ~IsDigit(Char(text, j))}
    IN  IF stops = {} THEN Len(text) + 1 - i
        ELSE (CHOOSE j \in stops : \A k \in stops : j <= k) - i

\* the text without its characters c
RECURSIVE Without(_, _)
Without(text, c) ==
    LET found == {i \in 1..Len(text) : Char(text, i) = c}
        first == CHOOSE i \in found : \A j \in found : i <= j
    IN  IF found = {} THEN text
        ELSE SubSeq(text, 1, first - 1) \o Without(SubSeq(text, first + 1, Len(text)), c)

\* the number a run of digits denotes
RECURSIVE BigOfDigits(_)
BigOfDigits(digits) ==
    LET n == Len(digits)
        left == BigOfDigits(SubSeq(digits, 1, n \div 2))
        right == BigOfDigits(SubSeq(digits, (n \div 2) + 1, n))
    IN  IF n = 0 THEN <<>>
        ELSE IF n = 1 THEN BigTrim(<<DigitValue(digits)>>)
        ELSE IF left = <<>> THEN right
        ELSE BigAdd(BigTimesPow10(left, n - (n \div 2)), right, 0)

\* an exponent no float reaches: the value of a longer run of digits is
\* replaced by it
HugeExponent == 100000

\* the int a run of at most 5 digits denotes
RECURSIVE ShortValue(_)
ShortValue(text) ==
    IF text = "" THEN 0
    ELSE 10 * ShortValue(SubSeq(text, 1, Len(text) - 1)) + DigitValue(Char(text, Len(text)))

HugeOrValue(text) == IF Len(text) > 5 THEN HugeExponent ELSE ShortValue(text)

\* the int a run of digits denotes, HugeExponent when it is that or more
DigitsValue(digits) == HugeOrValue(StripLeading(digits, "0"))

\* a \div 10^n, and whether a remainder was dropped
RECURSIVE BigDivPow10(_, _)
BigDivPow10(a, n) ==
    IF n <= 3
    THEN LET d == BigDivSmall(a, IF n = 3 THEN 1000 ELSE IF n = 2 THEN 100
                                 ELSE IF n = 1 THEN 10 ELSE 1)
         IN  [q |-> d.q, inexact |-> d.r # 0]
    ELSE LET first == BigDivPow10(a, n \div 2)
             second == BigDivPow10(first.q, n - (n \div 2))
         IN  IF first.q = <<>> THEN first
             ELSE [q |-> second.q, inexact |-> first.inexact \/ second.inexact]

\* the decimal exponents beyond which a number with one digit before the
\* point is inf, and 0.0
InfExponent == 310

ZeroExponent == -330

\* bits of the quotient a division keeps for the rounding
GuardBits == 64

\* the bits m is shifted by before it is divided by 10^n, so that the
\* quotient has GuardBits bits or more
GuardShift(m, n) ==
    IF GuardBits + ((10 * n) \div 3) + 1 - BigBitLen(m) > 0
    THEN GuardBits + ((10 * n) \div 3) + 1 - BigBitLen(m)
    ELSE 0

QuotientToFloat(neg, d, exp) == RoundToFloat(neg, d.q, exp, d.inexact)

DividedToFloat(neg, m, n, shift) ==
    QuotientToFloat(neg, BigDivPow10(BigShl(m, shift), n), 0 - shift)

\* the float nearest to (-1)^neg * m * 10^e10
ScaledToFloat(neg, m, e10) ==
    IF e10 >= 0 THEN RoundToFloat(neg, BigTimesPow10(m, e10), 0, FALSE)
    ELSE DividedToFloat(neg, m, 0 - e10, GuardShift(m, 0 - e10))

\* the float nearest to (-1)^neg * 0.<digits> * 10^point, the first digit not 0
DecimalToFloat(neg, digits, point) ==
    IF point > InfExponent THEN FloatInf(neg)
    ELSE IF point < ZeroExponent THEN FloatZero(neg)
    ELSE ScaledToFloat(neg, BigOfDigits(digits), point - Len(digits))

\* the number of the digits given, <whole> of them before the point, times
\* 10^exponent
ParseSignificant(neg, digits, whole, exponent) ==
    IF Strip(digits, "0") = "" THEN Ok(FloatZero(neg))
    ELSE Ok(DecimalToFloat(neg, Strip(digits, "0"),
                           whole - (Len(digits) - Len(StripLeading(digits, "0")))
                           + exponent))

ParseDigits(neg, body, whole, fraction, exponent) ==
    ParseSignificant(neg,
                     SubSeq(body, 1, whole) \o SubSeq(body, whole + 2, whole + 1 + fraction),
                     whole, exponent)

\* the exponent: digits from efrom on up to the end of the text, one at least
ParsePowered(neg, body, whole, fraction, eneg, efrom, edigits) ==
    IF edigits = 0 \/ efrom + edigits - 1 # Len(body) THEN Raise("ValueError")
    ELSE ParseDigits(neg, body, whole, fraction,
                     (IF eneg THEN -1 ELSE 1)
                     * DigitsValue(SubSeq(body, efrom, efrom + edigits - 1)))

\* what follows the mantissa: nothing, or e or E, a sign or none, and digits
ParseExponent(neg, body, whole, fraction, mantissa) ==
    LET n == Len(body)
        powered == mantissa < n /\ Char(body, mantissa + 1) \in {"e", "E"}
        esigned == powered /\ mantissa + 1 < n
                   /\ Char(body, mantissa + 2) \in {"+", "-"}
        efrom == mantissa + (IF esigned THEN 3 ELSE 2)
    IN  IF ~powered
        THEN (IF mantissa # n THEN Raise("ValueError")
              ELSE ParseDigits(neg, body, whole, fraction, 0))
        ELSE ParsePowered(neg, body, whole, fraction,
                          esigned /\ Char(body, mantissa + 2) = "-",
                          efrom, DigitRun(body, efrom))

\* the mantissa: <whole> digits, then a point and <fraction> digits or
\* neither, one digit at least
ParseMantissa(neg, body, whole, pointed, fraction) ==
    IF whole + fraction = 0 THEN Raise("ValueError")
    ELSE ParseExponent(neg, body, whole, fraction,
                       whole + fraction + (IF pointed THEN 1 ELSE 0))

ParseFraction(neg, body, whole, pointed) ==
    ParseMantissa(neg, body, whole, pointed,
                  IF pointed THEN DigitRun(body, whole + 2) ELSE 0)

ParseNumber(neg, body, whole) ==
    ParseFraction(neg, body, whole, whole < Len(body) /\ Char(body, whole + 1) = ".")

\* the text after the sign
ParseBody(neg, body) ==
    IF LowerIs(body, "inf") \/ LowerIs(body, "infinity") THEN Ok(FloatInf(neg))
    ELSE IF LowerIs(body, "nan") THEN Ok(FloatNaN)
    ELSE ParseNumber(neg, body, DigitRun(body, 1))

ParseSigned(s) ==
    IF s # "" /\ Char(s, 1) \in {"+", "-"}
    THEN ParseBody(Char(s, 1) = "-", SubSeq(s, 2, Len(s)))
    ELSE ParseBody(FALSE, s)

\* an underscore stands between two digits
Grouped(text) ==
    \A i \in 1..Len(text) :
        Char(text, i) = "_" =>
            /\ i > 1 /\ IsDigit(Char(text, i - 1))
            /\ i < Len(text) /\ IsDigit(Char(text, i + 1))

ParseStripped(text) ==
    IF ~Grouped(text) THEN Raise("ValueError") ELSE ParseSigned(Without(text, "_"))

\* float(text) of a str: whitespace around the number is dropped and an
\* underscore may stand between two digits; the number is a sign, then inf,
\* infinity or nan in any case, or digits with at most one point among them
\* and an exponent; anything else raises ValueError
ParseFloat(text) == ParseStripped(StripSet(text, FloatWhitespace))


----------------------------------------------------------------------------
(* repr of a float: the shortest digits that read back as the float *)

\* b \div s, a digit, and b % s, for b < 10 * s
RECURSIVE Quorem(_, _, _)
Quorem(b, s, dig) ==
    IF BigCmp(b, s) < 0 THEN [dig |-> dig, b |-> b]
    ELSE Quorem(BigSub(b, s), s, dig + 1)

\* The number x > 0 and half the gaps to the floats next to it, as the
\* numerators b, mhi and mlo of fractions of denominator s.  The gap below x
\* is half the gap above it when the significand is 2^52 and the float
\* below has a smaller exponent.
GapsOf(x) ==
    LET f == BigOfFloat(x)
        two == IF x.hi = HiMin /\ x.mid = 0 /\ x.lo = 0 /\ x.exp > MinExp THEN 2 ELSE 1
    IN  IF x.exp >= 0
        THEN [b |-> BigShl(f, x.exp + two), s |-> BigShl(<<1>>, two),
              mhi |-> BigShl(<<1>>, x.exp + two - 1), mlo |-> BigShl(<<1>>, x.exp)]
        ELSE [b |-> BigShl(f, two), s |-> BigShl(<<1>>, two - x.exp),
              mhi |-> BigShl(<<1>>, two - 1), mlo |-> <<1>>]

\* the fractions divided by 10^k
ScaledBy(g, k) ==
    IF k >= 0 THEN [g EXCEPT !.s = BigTimesPow10(g.s, k)]
    ELSE [b |-> BigTimesPow10(g.b, 0 - k), s |-> g.s,
          mhi |-> BigTimesPow10(g.mhi, 0 - k), mlo |-> BigTimesPow10(g.mlo, 0 - k)]

\* the k with 10^k <= x < 10^(k+1), from a first guess, and the fractions
\* divided by 10^k
RECURSIVE DecimalExponent(_, _, _)
DecimalExponent(g, k, scaled) ==
    IF BigCmp(scaled.b, scaled.s) < 0
    THEN DecimalExponent(g, k - 1, ScaledBy(g, k - 1))
    ELSE IF BigCmp(scaled.b, BigMulSmall(scaled.s, 10, 0)) >= 0
    THEN DecimalExponent(g, k + 1, ScaledBy(g, k + 1))
    ELSE [k |-> k, scaled |-> scaled]

\* log10(2) is 1233 / 4096 to four places
ExponentGuess(x) == ((BigBitLen(BigOfFloat(x)) + x.exp - 1) * 1233) \div 4096

\* the digits end in a 9 that is rounded up: the 9s at the end are dropped
\* and the digit before them is raised; digits of 9s alone become a 1 one
\* place higher
RoundOff(digits, k) ==
    LET kept == {i \in 1..Len(digits) : Char(digits, i) # "9"}
        last == CHOOSE i \in kept : \A j \in kept : i >= j
    IN  IF kept = {} THEN [digits |-> "1", k |-> k + 1]
        ELSE [digits |-> SubSeq(digits, 1, last - 1)
                         \o Digit(DigitValue(Char(digits, last)) + 1),
              k |-> k]

\* the last digit is dig, never the digit after it
LastDigit_Truncated(digits, k, dig, up) == [digits |-> digits \o Digit(dig), k |-> k]

\* the last digit: dig, or the digit after it
LastDigit(digits, k, dig, up) ==
    IF ~up THEN [digits |-> digits \o Digit(dig), k |-> k]
    ELSE IF dig = 9 THEN RoundOff(digits \o "9", k)
    ELSE [digits |-> digits \o Digit(dig + 1), k |-> k]

\* The digits of b / s one by one, until the digits written, or those with
\* the last digit raised, denote a number that lies nearer to x than half
\* the gap to the next float (or at half the gap, when the significand of x
\* is even); of the two the nearer to x is taken, and the one with the even
\* last digit when both are as near.
RECURSIVE ShortestDigits(_, _, _, _, _, _, _)
\* q is the digit and what is left of b; low, high and half compare what is
\* left with the gap below, with s less the gap above, and with half of s
Decided(q, low, high, half, s, mlo, mhi, even, digits, k) ==
    IF high = 0 /\ even
    THEN LastDigit(digits, k, q.dig, q.dig = 9 \/ low > 0)
    ELSE IF low < 0 \/ (low = 0 /\ even)
    THEN LastDigit(digits, k, q.dig,
                   /\ q.b # <<>>
                   /\ high > 0
                   /\ (half > 0 \/ (half = 0 /\ q.dig % 2 = 1)))
    ELSE IF high > 0 THEN LastDigit(digits, k, q.dig, TRUE)
    ELSE ShortestDigits(BigMulSmall(q.b, 10, 0), s, BigMulSmall(mlo, 10, 0),
                        BigMulSmall(mhi, 10, 0), even, digits \o Digit(q.dig), k)

AfterDigit(q, s, mlo, mhi, even, digits, k) ==
    Decided(q, BigCmp(q.b, mlo),
            IF BigCmp(mhi, s) > 0 THEN 1 ELSE BigCmp(q.b, BigSub(s, mhi)),
            BigCmp(BigShl(q.b, 1), s), s, mlo, mhi, even, digits, k)

ShortestDigits(b, s, mlo, mhi, even, digits, k) ==
    AfterDigit(Quorem(b, s, 0), s, mlo, mhi, even, digits, k)

DigitsFrom(start, even) ==
    ShortestDigits(start.scaled.b, start.scaled.s, start.scaled.mlo, start.scaled.mhi,
                   even, "", start.k)

ShortestOf(g, k, even) == DigitsFrom(DecimalExponent(g, k, ScaledBy(g, k)), even)

\* the shortest digits d1 d2 ... dn and the k such that d1.d2...dn * 10^k
\* reads back as x, for a finite x other than 0
Shortest(x) == ShortestOf(GapsOf(x), ExponentGuess(x), x.lo % 2 = 0)

\* str(n) of an int n >= 0
RECURSIVE NatText(_)
NatText(n) == IF n < 10 THEN Digit(n) ELSE NatText(n \div 10) \o Digit(n % 10)

\* str(n) of an int
IntText(n) == IF n < 0 THEN "-" \o NatText(0 - n) ELSE NatText(n)

\* the exponent of a repr: a sign and two digits at least
ExponentText(e) ==
    (IF e < 0 THEN "-" ELSE "+")
    \o (IF e > -10 /\ e < 10 THEN "0" ELSE "") \o NatText(IF e < 0 THEN 0 - e ELSE e)

\* the digits with the point after the first decpt of them: with an
\* exponent when decpt <= -4 or decpt > 16, else without, and with ".0"
\* after a whole number
ReprText(digits, decpt) ==
    LET n == Len(digits)
    IN  IF decpt <= -4 \/ decpt > 16
        THEN Char(digits, 1) \o (IF n > 1 THEN "." \o SubSeq(digits, 2, n) ELSE "")
             \o "e" \o ExponentText(decpt - 1)
        ELSE IF decpt <= 0 THEN "0." \o Zeros(0 - decpt) \o digits
        ELSE IF decpt >= n THEN digits \o Zeros(decpt - n) \o ".0"
        ELSE SubSeq(digits, 1, decpt) \o "." \o SubSeq(digits, decpt + 1, n)

ShortestText(shortest) == ReprText(shortest.digits, shortest.k + 1)

\* float.__repr__(x)
FloatRepr(x) ==
    IF x.cls = "nan" THEN "nan"
    ELSE IF x.cls = "inf" THEN (IF x.neg THEN "-inf" ELSE "inf")
    ELSE (IF x.neg THEN "-" ELSE "")
         \o (IF IsZero(x) THEN "0.0" ELSE ShortestText(Shortest(x)))
----------------------------------------------------------------------------
(* Values decoded from JSON and the operations the program applies to them *)

PyBool(b) == [tag |-> "bool", bool |-> b]

PyInt(n) == [tag |-> "int", int |-> n]

PyStr(s) == [tag |-> "str", str |-> s]

PyList(items) == [tag |-> "list", list |-> items]

\* a dict of the items [key |-> <a TLA+ string>, value |-> <a value>], in
\* insertion order, no key twice
PyDict(items) == [tag |-> "dict", dict |-> items]

Item(key, value) == [key |-> key, value |-> value]

HasKey(items, key) == \E i \in 1..Len(items) : items[i].key = key

Lookup(items, key) == items[CHOOSE i \in 1..Len(items) : items[i].key = key].value

\* d[key] = value on the items of a dict: a key the dict has keeps its place
DictPut(items, key, value) ==
    IF HasKey(items, key)
    THEN [i \in 1..Len(items) |->
            IF items[i].key = key THEN Item(key, value) ELSE items[i]]
    ELSE Append(items, Item(key, value))

\* bool(v)
PyTruthy(v) ==
    CASE v.tag = "None" -> FALSE
      [] v.tag = "bool" -> v.bool
      [] v.tag = "int" -> v.int # 0
      [] v.tag = "float" -> ~IsZero(v)
      [] v.tag = "str" -> v.str # ""
      [] v.tag = "list" -> v.list # <<>>
      [] v.tag = "dict" -> v.dict # <<>>

\* word in text, on strs
IsSubstring(word, text) ==
    \E i \in 0..(Len(text) - Len(word)) : SubSeq(text, i + 1, i + Len(word)) = word

\* key in v, for a str key: a key of a dict, an item of a list, a part of a
\* str; TypeError for a value that is no container
PyContains(v, key) ==
    CASE v.tag = "dict" -> Ok(HasKey(v.dict, key))
      [] v.tag = "list" -> Ok(\E i \in 1..Len(v.list) : v.list[i] = PyStr(key))
      [] v.tag = "str" -> Ok(IsSubstring(key, v.str))
      [] OTHER -> Raise("TypeError")

\* v[key], for a str key: KeyError for a dict without the key, TypeError
\* for any value that is no dict
PyGetItem(v, key) ==
    IF v.tag # "dict" THEN Raise("TypeError")
    ELSE IF ~HasKey(v.dict, key) THEN Raise("KeyError")
    ELSE Ok(Lookup(v.dict, key))

\* list(v): the items of a list, the keys of a dict, the characters of a str;
\* TypeError for a value that cannot be iterated
PyIter(v) ==
    CASE v.tag = "list" -> Ok(v.list)
      [] v.tag = "dict" -> Ok([i \in 1..Len(v.dict) |-> PyStr(v.dict[i].key)])
      [] v.tag = "str" -> Ok([i \in 1..Len(v.str) |-> PyStr(Char(v.str, i))])
      [] OTHER -> Raise("TypeError")

\* [item[key] for item in items]: the list, or what the first item that has
\* no such key raises
RECURSIVE Column(_, _)
Column(items, key) ==
    IF items = <<>> THEN Ok(<<>>)
    ELSE LET first == PyGetItem(Head(items), key)
             rest == Column(Tail(items), key)
         IN  IF first.raised # "none" THEN first
             ELSE IF rest.raised # "none" THEN rest
             ELSE Ok(<<first.value>> \o rest.value)

IsNumber(v) == v.tag \in {"int", "bool", "float"}

\* the int a bool or an int is
AsInt(v) == IF v.tag = "bool" THEN (IF v.bool THEN 1 ELSE 0) ELSE v.int

\* float(v) of a number
ToFloat(v) == IF v.tag = "float" THEN v ELSE IntToFloat(AsInt(v))

\* a / b: TypeError unless both are numbers, ZeroDivisionError for b == 0,
\* else the float nearest to the quotient
PyTrueDiv(a, b) ==
    IF ~IsNumber(a) \/ ~IsNumber(b) THEN Raise("TypeError")
    ELSE FloatTrueDiv(ToFloat(a), ToFloat(b))

\* a < b on numbers
PyLess(a, b) ==
    IF a.tag # "float" /\ b.tag # "float" THEN AsInt(a) < AsInt(b)
    ELSE FloatLess(ToFloat(a), ToFloat(b))

\* a + b on numbers: an int for two ints, else a float
PyAdd(a, b) ==
    IF a.tag # "float" /\ b.tag # "float" THEN PyInt(AsInt(a) + AsInt(b))
    ELSE FloatAdd(ToFloat(a), ToFloat(b))

\* min(items): the first of the smallest items; ValueError for no item.
\* The items are numbers when there are two or more of them.
RECURSIVE MinFrom(_, _)
MinFrom(best, rest) ==
    IF rest = <<>> THEN best
    ELSE MinFrom(IF PyLess(Head(rest), best) THEN Head(rest) ELSE best, Tail(rest))

PyMin(items) ==
    IF items = <<>> THEN Raise("ValueError")
    ELSE Ok(MinFrom(Head(items), Tail(items)))

\* max(items): the first of the largest items
RECURSIVE MaxFrom(_, _)
MaxFrom(best, rest) ==
    IF rest = <<>> THEN best
    ELSE MaxFrom(IF PyLess(best, Head(rest)) THEN Head(rest) ELSE best, Tail(rest))

PyMax(items) ==
    IF items = <<>> THEN Raise("ValueError")
    ELSE Ok(MaxFrom(Head(items), Tail(items)))

\* sum(items): the items added to the int 0 from left to right; TypeError at
\* the first item that is no number
RECURSIVE SumFrom(_, _)
SumFrom(total, rest) ==
    IF rest = <<>> THEN Ok(total)
    ELSE IF ~IsNumber(Head(rest)) THEN Raise("TypeError")
    ELSE SumFrom(PyAdd(total, Head(rest)), Tail(rest))

PySum(items) == SumFrom(PyInt(0), items)

\* format(v, '.<digits>f'): the text for a number, ValueError for a str,
\* TypeError for None, a list and a dict
PyFormatFixed(v, digits) ==
    IF IsNumber(v) THEN Ok(FormatFixed(ToFloat(v), digits))
    ELSE IF v.tag = "str" THEN Raise("ValueError")
    ELSE Raise("TypeError")

----------------------------------------------------------------------------
(* JSON documents *)

\* A JSON text is the sequence of its tokens, the white space between them
\* left out.  kind is one of "{", "}", "[", "]", ",", ":", "null", "true",
\* "false", "NaN", "Infinity", "-Infinity", or
\*   "number"  for any other run of characters that is no string: text holds
\*             the characters;
\*   "string"  for a string: text holds the characters between the quotes as
\*             they are written, escapes and all;
\*   "message" for the string of a sentence the program builds from a fixed
\*             text and values: message holds the values, the free text among
\*             them as it is written, the fixed text is not spelled out;
\*   "word"    for a run of characters that is no JSON token.
Tok(kind) == [kind |-> kind, text |-> "", message |-> None]

NumberTok(text) == [kind |-> "number", text |-> text, message |-> None]

StringTok(text) == [kind |-> "string", text |-> text, message |-> None]

MessageTok(message) == [kind |-> "message", text |-> "", message |-> message]

\* U+0008
Backspace == ""

\* the characters U+0020 to U+005F and U+0061 to U+007E in the order of
\* their codes
AsciiLow == " !\"#$%&'()*+,-./0123456789:;<=>?@ABCDEFGHIJKLMNOPQRSTUVWXYZ[\\]^_"

AsciiHigh == "abcdefghijklmnopqrstuvwxyz{|}~"

\* the other characters of the texts, with their codes
OtherCodes ==
    <<<<Backspace, 8>>, <<"\t", 9>>, <<"\n", 10>>, <<VerticalTab, 11>>, <<"\f", 12>>,
      <<"\r", 13>>, <<FileSeparator, 28>>, <<GroupSeparator, 29>>,
      <<RecordSeparator, 30>>, <<UnitSeparator, 31>>, <<NextLine, 133>>,
      <<NoBreakSpace, 160>>, <<"é", 233>>>>

\* the first position of the text that holds c, 0 when there is none
PositionIn(text, c) ==
    LET found == {i \in 1..Len(text) : Char(text, i) = c}
    IN  IF found = {} THEN 0 ELSE CHOOSE i \in found : \A j \in found : i <= j

\* ord(c) of a character of the texts
Ord(c) ==
    IF PositionIn(AsciiLow, c) > 0 THEN 31 + PositionIn(AsciiLow, c)
    ELSE IF PositionIn(AsciiHigh, c) > 0 THEN 96 + PositionIn(AsciiHigh, c)
    ELSE OtherCodes[CHOOSE i \in DOMAIN OtherCodes : OtherCodes[i][1] = c][2]

\* the codes of the characters of the texts
IsCode(n) ==
    \/ n \in 32..95
    \/ n \in 97..126
    \/ \E i \in DOMAIN OtherCodes : OtherCodes[i][2] = n

\* chr(n)
Chr(n) ==
    IF n \in 32..95 THEN Char(AsciiLow, n - 31)
    ELSE IF n \in 97..126 THEN Char(AsciiHigh, n - 96)
    ELSE OtherCodes[CHOOSE i \in DOMAIN OtherCodes : OtherCodes[i][2] = n][1]

HexDigits == "0123456789abcdef"

\* '{0:04x}'.format(n)
Hex4(n) ==
    Char(HexDigits, ((n \div 4096) % 16) + 1) \o Char(HexDigits, ((n \div 256) % 16) + 1)
    \o Char(HexDigits, ((n \div 16) % 16) + 1) \o Char(HexDigits, (n % 16) + 1)

\* the characters json.encoder.ESCAPE_ASCII does not match: U+0020 to U+007E
\* without the quote and the backslash
PlainChars ==
    ({Char(AsciiLow, i) : i \in 1..Len(AsciiLow)}
        \cup {Char(AsciiHigh, i) : i \in 1..Len(AsciiHigh)}) \ {"\"", "\\"}

\* json.encoder.ESCAPE_DCT and the replace of py_encode_basestring_ascii:
\* a quote and a backslash get a backslash before them, backspace, form
\* feed, newline, return and tab their letter, any other character outside
\* U+0020 to U+007E four hexadecimal digits after \u
EscapeChar(c) ==
    CASE c = "\"" -> "\\\""
      [] c = "\\" -> "\\\\"
      [] c = Backspace -> "\\b"
      [] c = "\f" -> "\\f"
      [] c = "\n" -> "\\n"
      [] c = "\r" -> "\\r"
      [] c = "\t" -> "\\t"
      [] OTHER -> IF Ord(c) \in 32..126 THEN c ELSE "\\u" \o Hex4(Ord(c))

\* what json.dump writes between the quotes for the str s (ensure_ascii is
\* left at its default)
RECURSIVE EscapeStr(_)
EscapeStr(s) ==
    IF \A i \in 1..Len(s) : Char(s, i) \in PlainChars THEN s
    ELSE IF Len(s) = 1 THEN EscapeChar(s)
    ELSE EscapeStr(SubSeq(s, 1, Len(s) \div 2))
         \o EscapeStr(SubSeq(s, (Len(s) \div 2) + 1, Len(s)))

\* the sentence as it is written: its free text is escaped
EscapeMessage(message) ==
    IF "function" \in DOMAIN message
    THEN [message EXCEPT !.function = EscapeStr(@)]
    ELSE message

IsHexDigit(c) == PositionIn("0123456789abcdefABCDEF", c) > 0

HexValue(c) ==
    IF IsDigit(c) THEN DigitValue(c) ELSE 9 + ((PositionIn("abcdefABCDEF", c) - 1) % 6) + 1

\* the number of the four hexadecimal digits that start at position i
Hex4Value(text, i) ==
    4096 * HexValue(Char(text, i)) + 256 * HexValue(Char(text, i + 1))
    + 16 * HexValue(Char(text, i + 2)) + HexValue(Char(text, i + 3))

IsHex4(text, i) ==
    i + 3 <= Len(text) /\ \A j \in i..(i + 3) : IsHexDigit(Char(text, j))

\* json.decoder.BACKSLASH
Backslashed(c) ==
    CASE c = "b" -> Backspace
      [] c = "f" -> "\f"
      [] c = "n" -> "\n"
      [] c = "r" -> "\r"
      [] c = "t" -> "\t"
      [] OTHER -> c

\* what json.decoder.STRINGCHUNK stops at: a quote, a backslash or a
\* control character below U+0020
Terminators ==
    {"\"", "\\", Backspace, "\t", "\n", VerticalTab, "\f", "\r", FileSeparator,
     GroupSeparator, RecordSeparator, UnitSeparator}

\* the first position from i on that holds a terminator, 0 when there is
\* none
NextTerminator(text, i) ==
    LET found == {j \in i..Len(text) : Char(text, j) \in Terminators}
    IN  IF found = {} THEN 0 ELSE CHOOSE j \in found : \A k \in found : j <= k

\* scanstring (strict) on the characters of a string from position i on, s
\* being the str read so far: the characters up to the next terminator are
\* taken as they are; a quote ends the string, and what follows it in the
\* run is no JSON; a control character below U+0020 is refused; a backslash
\* is followed by one of "\/bfnrt or by u and four hexadecimal digits (those
\* of a character of the texts)
RECURSIVE Unescaped(_, _, _)
Terminated(text, i, s) ==
    IF Char(text, i) # "\\" THEN [ok |-> FALSE, str |-> ""]
    ELSE IF i < Len(text) /\ PositionIn("\"\\/bfnrt", Char(text, i + 1)) > 0
    THEN Unescaped(text, i + 2, s \o Backslashed(Char(text, i + 1)))
    ELSE IF i < Len(text) /\ Char(text, i + 1) = "u" /\ IsHex4(text, i + 2)
    THEN Unescaped(text, i + 6, s \o Chr(Hex4Value(text, i + 2)))
    ELSE [ok |-> FALSE, str |-> ""]

ChunkTo(text, i, s, end) ==
    IF end = 0 THEN [ok |-> TRUE, str |-> s \o SubSeq(text, i, Len(text))]
    ELSE Terminated(text, end, s \o SubSeq(text, i, end - 1))

Unescaped(text, i, s) == ChunkTo(text, i, s, NextTerminator(text, i))

UnescapeStr(text) == Unescaped(text, 1, "")

\* the sentence read back
MessageRead(message, function) ==
    [ok |-> function.ok, message |-> [message EXCEPT !.function = function.str]]

UnescapeMessage(message) ==
    IF "function" \in DOMAIN message
    THEN MessageRead(message, UnescapeStr(message.function))
    ELSE [ok |-> TRUE, message |-> message]

\* the length of the fraction of json.scanner.NUMBER_RE at position dot:
\* "." and digits, 0 when there is none
FractionRun(text, dot) ==
    IF dot <= Len(text) /\ Char(text, dot) = "." /\ DigitRun(text, dot + 1) > 0
    THEN 1 + DigitRun(text, dot + 1)
    ELSE 0

\* the length of the exponent of NUMBER_RE at position e: e or E, a sign or
\* none, and digits from efrom on; 0 when there is none
ExponentDigits(text, e, efrom) ==
    IF efrom <= Len(text) /\ DigitRun(text, efrom) > 0
    THEN efrom + DigitRun(text, efrom) - e
    ELSE 0

ExponentRun(text, e) ==
    IF e <= Len(text) /\ Char(text, e) \in {"e", "E"}
    THEN ExponentDigits(text, e,
                        IF e < Len(text) /\ Char(text, e + 1) \in {"+", "-"}
                        THEN e + 2 ELSE e + 1)
    ELSE 0

ShapeOf(text, from, whole, fraction, exponent) ==
    [ok |-> /\ from <= Len(text)
            /\ whole >= 1
            /\ (whole = 1 \/ Char(text, from) # "0")
            /\ from + whole + fraction + exponent = Len(text) + 1,
     int |-> fraction = 0 /\ exponent = 0]

ShapeWithFraction(text, from, whole, fraction) ==
    ShapeOf(text, from, whole, fraction, ExponentRun(text, from + whole + fraction))

ShapeFrom(text, from, whole) ==
    ShapeWithFraction(text, from, whole, FractionRun(text, from + whole))

ShapeAfterSign(text, from) == ShapeFrom(text, from, DigitRun(text, from))

\* json.scanner.NUMBER_RE on the run of characters: a "-" or none, 0 or
\* digits that do not start with 0, then "." and digits or neither, then e
\* or E, a sign or none and digits, or none of them.  The run is a number
\* when the match reaches its end (what is left after it is no JSON); the
\* number is an int when it has no fraction and no exponent.
NumberShape(text) ==
    ShapeAfterSign(text, IF text # "" /\ Char(text, 1) = "-" THEN 2 ELSE 1)

\* int(text) of "-" or nothing and digits
RECURSIVE NatOfDigits(_)
NatOfDigits(digits) ==
    IF digits = "" THEN 0
    ELSE 10 * NatOfDigits(SubSeq(digits, 1, Len(digits) - 1))
         + DigitValue(Char(digits, Len(digits)))

IntOfText(text) ==
    IF Char(text, 1) = "-" THEN 0 - NatOfDigits(SubSeq(text, 2, Len(text)))
    ELSE NatOfDigits(text)

\* the value of a number: int(text), or float(text)
NumberOf(text, shape) ==
    IF shape.int THEN PyInt(IntOfText(text)) ELSE ParseFloat(text).value

NumberValue(text) == NumberOf(text, NumberShape(text))

\* a str the program builds from a fixed text and the values of message
PyMessage(message) == [tag |-> "message", message |-> message]

\* the texts joined by one separator token
RECURSIVE JoinTokens(_, _)
JoinTokens(texts, separator) ==
    IF texts = <<>> THEN <<>>
    ELSE IF Len(texts) = 1 THEN texts[1]
    ELSE texts[1] \o <<separator>> \o JoinTokens(Tail(texts), separator)

\* "[" item, item, ... "]"
JArray(items) == <<Tok("[")>> \o JoinTokens(items, Tok(",")) \o <<Tok("]")>>

\* one "key": value pair of an object, the key as it is written
JMember(key, value) == <<StringTok(key), Tok(":")>> \o value

\* "{" member, member, ... "}"
JObject(members) == <<Tok("{")>> \o JoinTokens(members, Tok(",")) \o <<Tok("}")>>

JsonFail == [ok |-> FALSE, value |-> None, next |-> 0]

JsonDone(v, next) == [ok |-> TRUE, value |-> v, next |-> next]

KindAt(toks, i) == IF i <= Len(toks) THEN toks[i].kind ELSE "eof"

\* the decoder of json.load: the value that starts at token i and the
\* position after it.  An object becomes a dict (a repeated key keeps its
\* place and its last value), an array a list, a number with a fraction or
\* an exponent a float, any other number an int, null None; NaN, Infinity
\* and -Infinity are accepted and become the floats nan, inf and -inf.
RECURSIVE JsonValue(_, _)
RECURSIVE JsonItems(_, _, _)
RECURSIVE JsonMembers(_, _, _)
NumberDone(text, shape, next) ==
    IF shape.ok THEN JsonDone(NumberOf(text, shape), next) ELSE JsonFail

StringDone(string, next) ==
    IF string.ok THEN JsonDone(PyStr(string.str), next) ELSE JsonFail

MessageDone(read, next) ==
    IF read.ok THEN JsonDone(PyMessage(read.message), next) ELSE JsonFail

JsonValue(toks, i) ==
    LET kind == KindAt(toks, i)
    IN  CASE kind = "null" -> JsonDone(None, i + 1)
          [] kind = "true" -> JsonDone(PyBool(TRUE), i + 1)
          [] kind = "false" -> JsonDone(PyBool(FALSE), i + 1)
          [] kind = "NaN" -> JsonDone(FloatNaN, i + 1)
          [] kind = "Infinity" -> JsonDone(FloatInf(FALSE), i + 1)
          [] kind = "-Infinity" -> JsonDone(FloatInf(TRUE), i + 1)
          [] kind = "number" ->
                NumberDone(toks[i].text, NumberShape(toks[i].text), i + 1)
          [] kind = "string" -> StringDone(UnescapeStr(toks[i].text), i + 1)
          [] kind = "message" -> MessageDone(UnescapeMessage(toks[i].message), i + 1)
          [] kind = "[" ->
                IF KindAt(toks, i + 1) = "]" THEN JsonDone(PyList(<<>>), i + 2)
                ELSE JsonItems(toks, i + 1, <<>>)
          [] kind = "{" ->
                IF KindAt(toks, i + 1) = "}" THEN JsonDone(PyDict(<<>>), i + 2)
                ELSE JsonMembers(toks, i + 1, <<>>)
          [] OTHER -> JsonFail

\* the array after its item v: a comma and the next item, or the bracket
ItemsAfter(toks, items, v) ==
    IF ~v.ok THEN JsonFail
    ELSE IF KindAt(toks, v.next) = ","
    THEN JsonItems(toks, v.next + 1, Append(items, v.value))
    ELSE IF KindAt(toks, v.next) = "]"
    THEN JsonDone(PyList(Append(items, v.value)), v.next + 1)
    ELSE JsonFail

\* the items of an array from token i on, items being those read so far
JsonItems(toks, i, items) == ItemsAfter(toks, items, JsonValue(toks, i))

\* the object after its member key: v
MembersAfter(toks, members, key, v) ==
    IF ~key.ok \/ ~v.ok THEN JsonFail
    ELSE IF KindAt(toks, v.next) = ","
    THEN JsonMembers(toks, v.next + 1, DictPut(members, key.str, v.value))
    ELSE IF KindAt(toks, v.next) = "}"
    THEN JsonDone(PyDict(DictPut(members, key.str, v.value)), v.next + 1)
    ELSE JsonFail

\* the members of an object from token i on: a key is a string, read as
\* any other string
JsonMembers(toks, i, members) ==
    IF KindAt(toks, i) # "string" \/ KindAt(toks, i + 1) # ":" THEN JsonFail
    ELSE MembersAfter(toks, members, UnescapeStr(toks[i].text), JsonValue(toks, i + 2))

Loaded(toks, v) ==
    IF v.ok /\ v.next = Len(toks) + 1 THEN Ok(v.value)
    ELSE Raise("JSONDecodeError")

\* json.load: one value and nothing after it, JSONDecodeError otherwise
json_load(toks) == Loaded(toks, JsonValue(toks, 1))

\* the encoder of json.dump (allow_nan and ensure_ascii are left at their
\* defaults): the tokens of a value.  An int is written by int.__repr__, a
\* float by float.__repr__, nan and the infinities as NaN, Infinity and
\* -Infinity, a str between quotes with its characters escaped; the key of
\* a member is written as a str is.
RECURSIVE DumpValue(_)
DumpValue(v) ==
    CASE v.tag = "None" -> <<Tok("null")>>
      [] v.tag = "bool" -> <<Tok(IF v.bool THEN "true" ELSE "false")>>
      [] v.tag = "int" -> <<NumberTok(IntText(v.int))>>
      [] v.tag = "float" ->
            IF v.cls = "nan" THEN <<Tok("NaN")>>
            ELSE IF v.cls = "inf"
            THEN <<Tok(IF v.neg THEN "-Infinity" ELSE "Infinity")>>
            ELSE <<NumberTok(FloatRepr(v))>>
      [] v.tag = "str" -> <<StringTok(EscapeStr(v.str))>>
      [] v.tag = "message" -> <<MessageTok(EscapeMessage(v.message))>>
      [] v.tag = "list" ->
            JArray([i \in 1..Len(v.list) |-> DumpValue(v.list[i])])
      [] v.tag = "dict" ->
            JObject([i \in 1..Len(v.dict) |->
                       JMember(EscapeStr(v.dict[i].key), DumpValue(v.dict[i].value))])
----------------------------------------------------------------------------
(* Artifact Loader: finding the newest file *)

\* the characters of a name or a pattern, in the order of their codes (the
\* control characters and the ASCII characters a TLA+ string can hold)
CodeOrder ==
    "\t\n\f\r !\"#$%&'()*+,-./0123456789:;<=>?@ABCDEFGHIJKLMNOPQRSTUVWXYZ[\\]^_abcdefghijklmnopqrstuvwxyz{|}~"

\* ord(c), up to a shift that keeps the order
CharCode(c) == CHOOSE i \in 1..Len(CodeOrder) : Char(CodeOrder, i) = c

\* text.find(c, from): the first position from..Len(text) that holds c, 0
\* when there is none
Find(text, c, from) ==
    LET found == {i \in from..Len(text) : Char(text, i) = c}
    IN  IF found = {} THEN 0 ELSE CHOOSE i \in found : \A j \in found : i <= j

\* the position of the "]" that closes the "[" at position i of the pattern,
\* 0 when none does: a "!" right after the "[" and a "]" right after those
\* do not close it
ClassEnd(pat, i) ==
    LET afterBang == IF i + 1 <= Len(pat) /\ Char(pat, i + 1) = "!" THEN i + 2 ELSE i + 1
        from == IF afterBang <= Len(pat) /\ Char(pat, afterBang) = "]"
                THEN afterBang + 1 ELSE afterBang
    IN  Find(pat, "]", from)

\* the chunks of what stands between "[" and "]": it is cut at each "-" that
\* can join two characters into a range, found from position k on; i is the
\* start of the chunk being read.  A "-" at the very end goes to the last chunk.
RECURSIVE Chunks(_, _, _)
Chunks(stuff, i, k) ==
    LET hyphen == Find(stuff, "-", k)
        rest == Chunks(stuff, hyphen + 1, hyphen + 3)
    IN  IF hyphen = 0 THEN <<SubSeq(stuff, i, Len(stuff))>>
        ELSE IF rest = <<"">> THEN <<SubSeq(stuff, i, hyphen)>>
        ELSE <<SubSeq(stuff, i, hyphen - 1)>> \o rest

\* the chunks without the ranges that hold no character, from the boundary
\* between chunks k and k + 1 down to the first: the two ends of such a range
\* are dropped and the chunks joined
RECURSIVE RemoveEmptyRanges(_, _)
RemoveEmptyRanges(chunks, k) ==
    IF k = 0 THEN chunks
    ELSE LET left == chunks[k]
             right == chunks[k + 1]
             joined == SubSeq(left, 1, Len(left) - 1) \o SubSeq(right, 2, Len(right))
         IN  IF CharCode(Char(left, Len(left))) > CharCode(Char(right, 1))
             THEN RemoveEmptyRanges(SubSeq(chunks, 1, k - 1) \o <<joined>>
                                    \o SubSeq(chunks, k + 2, Len(chunks)), k - 1)
             ELSE RemoveEmptyRanges(chunks, k - 1)

\* One element of a translated pattern matches one character: "any" each,
\* "never" none, "lit" the character c, "class" those of a bracket
\* expression: the characters of its chunks and those from the last of a
\* chunk to the first of the next, or all others when it is negated.
\* "star" matches any run of characters.
Element(kind, c, negated, chunks) ==
    [kind |-> kind, c |-> c, negated |-> negated, chunks |-> chunks]

Star == Element("star", "", FALSE, <<>>)

\* the element for "[" stuff "]"
ClassElement(stuff) ==
    LET cut == IF Find(stuff, "-", 1) = 0 THEN <<stuff>>
               ELSE Chunks(stuff, 1, IF Char(stuff, 1) = "!" THEN 3 ELSE 2)
        chunks == RemoveEmptyRanges(cut, Len(cut) - 1)
        negated == chunks[1] # "" /\ Char(chunks[1], 1) = "!"
        members == IF negated
                   THEN <<SubSeq(chunks[1], 2, Len(chunks[1]))>> \o Tail(chunks)
                   ELSE chunks
    IN  IF chunks = <<"">> THEN Element("never", "", FALSE, <<>>)
        ELSE IF chunks = <<"!">> THEN Element("any", "", FALSE, <<>>)
        ELSE Element("class", "", negated, members)

\* fnmatch.translate: the elements of the pattern from position i on.  "*"
\* is a star, "?" any character, "[" opens a bracket expression when a "]"
\* closes it and stands for itself otherwise, as any other character does.
RECURSIVE Translate(_, _)
Translate(pat, i) ==
    IF i > Len(pat) THEN <<>>
    ELSE LET c == Char(pat, i)
             close == ClassEnd(pat, i)
         IN  IF c = "*" THEN <<Star>> \o Translate(pat, i + 1)
             ELSE IF c = "?"
             THEN <<Element("any", "", FALSE, <<>>)>> \o Translate(pat, i + 1)
             ELSE IF c = "[" /\ close # 0
             THEN <<ClassElement(SubSeq(pat, i + 1, close - 1))>>
                  \o Translate(pat, close + 1)
             ELSE <<Element("lit", c, FALSE, <<>>)>> \o Translate(pat, i + 1)

InClass(c, chunks) ==
    \/ \E k \in 1..Len(chunks) : Find(chunks[k], c, 1) # 0
    \/ \E k \in 1..(Len(chunks) - 1) :
          /\ CharCode(Char(chunks[k], Len(chunks[k]))) <= CharCode(c)
          /\ CharCode(c) <= CharCode(Char(chunks[k + 1], 1))

\* the element matches the character c
MatchesChar(element, c) ==
    CASE element.kind = "any" -> TRUE
      [] element.kind = "never" -> FALSE
      [] element.kind = "lit" -> element.c = c
      [] element.kind = "class" -> InClass(c, element.chunks) # element.negated

\* the elements, none of them a star, match the characters of the name from
\* position at on, one each
MatchesAt(elements, name, at) ==
    /\ at >= 1
    /\ at + Len(elements) - 1 <= Len(name)
    /\ \A k \in 1..Len(elements) : MatchesChar(elements[k], Char(name, at + k - 1))

\* the elements from the first star on match the name from position at on:
\* the piece between two stars is taken where it first matches, the piece
\* after the last star at the end of the name
RECURSIVE MatchesFromStar(_, _, _)
MatchesFromStar(elements, name, at) ==
    LET rest == Tail(elements)
        stars == {k \in 1..Len(rest) : rest[k].kind = "star"}
        next == CHOOSE k \in stars : \A j \in stars : k <= j
        piece == SubSeq(rest, 1, next - 1)
        places == {p \in at..(Len(name) + 1) : MatchesAt(piece, name, p)}
        first == CHOOSE p \in places : \A q \in places : p <= q
    IN  IF stars = {}
        THEN /\ Len(name) - Len(rest) + 1 >= at
             /\ MatchesAt(rest, name, Len(name) - Len(rest) + 1)
        ELSE /\ places # {}
             /\ MatchesFromStar(SubSeq(rest, next, Len(rest)), name, first + Len(piece))

\* the position of the first star of the elements, 0 when there is none
FirstStar(elements) ==
    LET stars == {k \in 1..Len(elements) : elements[k].kind = "star"}
    IN  IF stars = {} THEN 0 ELSE CHOOSE k \in stars : \A j \in stars : k <= j

\* the elements, the first star among them at position first, match the
\* whole name
MatchesAround(elements, name, first) ==
    IF first = 0
    THEN Len(name) = Len(elements) /\ MatchesAt(elements, name, 1)
    ELSE /\ MatchesAt(SubSeq(elements, 1, first - 1), name, 1)
         /\ MatchesFromStar(SubSeq(elements, first, Len(elements)), name, first)

FullMatch(elements, name) == MatchesAround(elements, name, FirstStar(elements))

\* re.fullmatch of the translated pattern on the name
fnmatch(name, pattern) == FullMatch(Translate(pattern, 1), name)

----------------------------------------------------------------------------
(* Regular expressions as the re module matches them *)

\* A pattern is the sequence of its items.  The matcher tries the ways an
\* item can match in the order re tries them and takes the first way with
\* which the rest of the pattern matches: a greedy repetition the longest
\* run first, a lazy one the shortest, an alternation its branches from left
\* to right.

\* the text itself
Lit(text) == [kind |-> "lit", text |-> text]

\* min or more characters of the set (of its complement when negated),
\* as many as possible, or as few as possible when lazy
Chars(set, negated, min, lazy) ==
    [kind |-> "chars", set |-> set, negated |-> negated, min |-> min, lazy |-> lazy]

Digits == {"0", "1", "2", "3", "4", "5", "6", "7", "8", "9"}

\* \d+
DigitsPlus == Chars(Digits, FALSE, 1, FALSE)

\* \s+
SpacesPlus == Chars(Whitespace, FALSE, 1, FALSE)

\* [\d,]+
NumberPlus == Chars(Digits \cup {","}, FALSE, 1, FALSE)

\* .*? under re.DOTALL: any characters
LazyAny == Chars({}, TRUE, 0, TRUE)

\* .*? without re.DOTALL: any characters but the newline
LazyInLine == Chars({"\n"}, TRUE, 0, TRUE)

\* ( items ): the n-th group of the pattern
Group(n, items) == [kind |-> "group", n |-> n, items |-> items]

\* the end of a group that started at start
GroupEnd(n, start) == [kind |-> "group_end", n |-> n, start |-> start]

\* (?: branch | branch | ... )
Either(branches) == [kind |-> "either", branches |-> branches]

\* \Z: the end of the text
AtEnd == [kind |-> "end"]

\* ==\d+==: the mark at the start of a line of a memory report
PidMark == <<Lit("=="), DigitsPlus, Lit("==")>>

\* the text holds the word at pos
HoldsAt(text, word, pos) ==
    /\ pos + Len(word) - 1 <= Len(text)
    /\ SubSeq(text, pos, pos + Len(word) - 1) = word

\* no match; in a match, groups[n] is <<start, end>> of the n-th group, the
\* end being the position after its last character
NoMatch == [ok |-> FALSE, start |-> 0, end |-> 0, groups |-> <<>>]

NoGroups == <<<<0, 0>>, <<0, 0>>, <<0, 0>>>>

Accepts(item, c) == (c \in item.set) # item.negated

\* the length of the longest run of characters the item accepts from pos on
RunLength(item, text, pos) ==
    LET refused == {i \in pos..Len(text) : ~Accepts(item, Char(text, i))}
    IN  IF refused = {} THEN Len(text) + 1 - pos
        ELSE (CHOOSE i \in refused : \A j \in refused : i <= j) - pos

\* whether the pattern can start at pos: what its first item needs of the
\* text there (a repetition that may be empty needs nothing)
RECURSIVE CanStart(_, _, _)
CanStart(pattern, text, pos) ==
    IF Len(pattern) = 0 THEN TRUE
    ELSE CASE pattern[1].kind = "lit" ->
                 HoldsAt(text, pattern[1].text, pos)
           [] pattern[1].kind = "chars" ->
                 \/ pattern[1].min = 0
                 \/ pos <= Len(text) /\ Accepts(pattern[1], Char(text, pos))
           [] pattern[1].kind = "group" ->
                 CanStart(pattern[1].items \o Tail(pattern), text, pos)
           [] pattern[1].kind = "group_end" -> CanStart(Tail(pattern), text, pos)
           [] pattern[1].kind = "either" ->
                 \E b \in DOMAIN pattern[1].branches :
                    CanStart(pattern[1].branches[b] \o Tail(pattern), text, pos)
           [] pattern[1].kind = "end" -> pos = Len(text) + 1

\* the first of two ways to match that succeeds
OrElse(first, second) == IF first.ok THEN first ELSE second

\* the counts of a repetition in the order it tries them, of those after
\* which the rest of the pattern can start
Counts(item, rest, text, pos, run) ==
    SelectSeq([i \in 1..(run + 1 - item.min) |->
                 IF item.lazy THEN item.min + i - 1 ELSE run + 1 - i],
              LAMBDA k : CanStart(rest, text, pos + k))

RECURSIVE MatchAt(_, _, _, _)

\* a repetition followed by the rest of the pattern: the first of the counts
\* with which the rest matches
RECURSIVE MatchRun(_, _, _, _, _)
MatchRun(rest, text, pos, groups, counts) ==
    IF Len(counts) = 0 THEN NoMatch
    ELSE OrElse(MatchAt(rest, text, pos + Head(counts), groups),
                MatchRun(rest, text, pos, groups, Tail(counts)))

\* the first branch with which the rest of the pattern matches
RECURSIVE MatchEither(_, _, _, _, _)
MatchEither(branches, rest, text, pos, groups) ==
    IF Len(branches) = 0 THEN NoMatch
    ELSE OrElse(MatchAt(Head(branches) \o rest, text, pos, groups),
                MatchEither(Tail(branches), rest, text, pos, groups))

MatchItem(item, rest, text, pos, groups) ==
    CASE item.kind = "lit" ->
            IF HoldsAt(text, item.text, pos)
            THEN MatchAt(rest, text, pos + Len(item.text), groups)
            ELSE NoMatch
      [] item.kind = "chars" ->
            MatchRun(rest, text, pos, groups,
                     Counts(item, rest, text, pos, RunLength(item, text, pos)))
      [] item.kind = "group" ->
            MatchAt(item.items \o <<GroupEnd(item.n, pos)>> \o rest, text, pos, groups)
      [] item.kind = "group_end" ->
            MatchAt(rest, text, pos, [groups EXCEPT ![item.n] = <<item.start, pos>>])
      [] item.kind = "either" ->
            MatchEither(item.branches, rest, text, pos, groups)
      [] item.kind = "end" ->
            IF pos = Len(text) + 1 THEN MatchAt(rest, text, pos, groups) ELSE NoMatch

\* the match of the pattern that starts at pos
MatchAt(pattern, text, pos, groups) ==
    IF Len(pattern) = 0
    THEN [ok |-> TRUE, start |-> 0, end |-> pos, groups |-> groups]
    ELSE MatchItem(Head(pattern), Tail(pattern), text, pos, groups)

StartingAt(match, start) == IF match.ok THEN [match EXCEPT !.start = start] ELSE match

\* the first of the positions at which the pattern matches
RECURSIVE SearchAt(_, _, _)
SearchAt(pattern, text, starts) ==
    IF Len(starts) = 0 THEN NoMatch
    ELSE OrElse(StartingAt(MatchAt(pattern, text, Head(starts), NoGroups), Head(starts)),
                SearchAt(pattern, text, Tail(starts)))

\* re.search(pattern, text) from the position from on: the match at the
\* first position at which the pattern matches
re_search(pattern, text, from) ==
    SearchAt(pattern, text,
             SelectSeq([i \in 1..(Len(text) + 2 - from) |-> from + i - 1],
                       LAMBDA s : CanStart(pattern, text, s)))

\* match.group(n)
GroupText(text, match, n) == SubSeq(text, match.groups[n][1], match.groups[n][2] - 1)

\* re.finditer(pattern, text): the matches one after the other, each
\* searched from the end of the one before (past it when that one is empty)
RECURSIVE re_finditer(_, _, _)
MatchAndLater(pattern, text, match) ==
    IF ~match.ok THEN <<>>
    ELSE <<match>>
         \o re_finditer(pattern, text,
                        IF match.end > match.start THEN match.end ELSE match.end + 1)

re_finditer(pattern, text, from) ==
    IF from > Len(text) + 1 THEN <<>>
    ELSE MatchAndLater(pattern, text, re_search(pattern, text, from))
\* A directory as find_latest_files sees it: path is the directory given,
\* exists tells that it is a directory, mtime is its modification time and
\* entries are what it lists, in the order scandir gives them, no name twice.
\* An entry is a file or a directory with its modification time, or a
\* symbolic link: link is "none" for a file or directory itself, "live" for
\* a link to one (dir and mtime are those of what it leads to), "dangling"
\* for a link whose target does not exist and "forbidden" for a link into a
\* directory the process may not search.  entries, of a directory itself, is
\* what that directory lists.  A pattern is one path component: it holds no
\* "/".
Entry(name, mtime, dir) ==
    [name |-> name, mtime |-> mtime, dir |-> dir, link |-> "none", entries |-> <<>>]

Subdirectory(name, mtime, entries) ==
    [name |-> name, mtime |-> mtime, dir |-> TRUE, link |-> "none", entries |-> entries]

LinkTo(name, target) ==
    [name |-> name, mtime |-> target.mtime, dir |-> target.dir, link |-> "live",
     entries |-> <<>>]

\* a link that os.stat cannot follow: state is "dangling" or "forbidden"
BrokenLink(name, state) ==
    [name |-> name, mtime |-> 0, dir |-> FALSE, link |-> state, entries |-> <<>>]

HasWildcard(pattern) == \E i \in 1..Len(pattern) : Char(pattern, i) \in {"*", "?", "["}

\* what the selector of "**" walks through below the entries of a
\* directory: every directory that is no link, before the directories in it;
\* the names are paths from the directory searched
RECURSIVE Subdirectories(_, _)
Subdirectories(prefix, entries) ==
    IF entries = <<>> THEN <<>>
    ELSE (IF Head(entries).dir /\ Head(entries).link = "none"
          THEN <<[Head(entries) EXCEPT !.name = prefix \o Head(entries).name]>>
               \o Subdirectories(prefix \o Head(entries).name \o "/",
                                 Head(entries).entries)
          ELSE <<>>)
         \o Subdirectories(prefix, Tail(entries))

\* Path.exists(): os.stat follows the link; a target that does not exist
\* (FileNotFoundError) is no path, any other OSError is raised
Exists(entry) ==
    IF entry.link = "dangling" THEN Ok(FALSE)
    ELSE IF entry.link = "forbidden" THEN Raise("PermissionError")
    ELSE Ok(TRUE)

\* list(Path(directory).glob(pattern)).  The pattern is refused before the
\* directory is looked at: ValueError for the empty one and for one that
\* holds "**" among other characters, IndexError for ".".  A directory that
\* does not exist gives nothing.  "**" gives the directory and every
\* directory below it that is reached without following a link; a pattern
\* with a wildcard the entries whose name it matches, links that lead
\* nowhere among them, in the order the directory lists them; any other
\* pattern the entry of that name if it exists (a PermissionError of the
\* test ends the listing: nothing is given).
glob(directory, pattern) ==
    IF pattern = "" THEN Raise("ValueError")
    ELSE IF pattern = "." THEN Raise("IndexError")
    ELSE IF pattern # "**" /\ IsSubstring("**", pattern) THEN Raise("ValueError")
    ELSE IF ~directory.exists THEN Ok(<<>>)
    ELSE IF pattern = "**"
    THEN Ok(<<Entry("", directory.mtime, TRUE)>> \o Subdirectories("", directory.entries))
    ELSE IF HasWildcard(pattern)
    THEN Ok(SelectSeq(directory.entries, LAMBDA entry : fnmatch(entry.name, pattern)))
    ELSE IF pattern = ".." THEN Ok(<<Entry("..", directory.parent_mtime, TRUE)>>)
    ELSE Ok(SelectSeq(directory.entries,
                      LAMBDA entry : entry.name = pattern /\ Exists(entry) = Ok(TRUE)))

\* os.path.getmtime(path): os.stat follows a link and raises when it cannot
getmtime(entry) ==
    IF entry.link = "dangling" THEN Raise("FileNotFoundError")
    ELSE IF entry.link = "forbidden" THEN Raise("PermissionError")
    ELSE Ok(entry.mtime)

\* max(files, key=os.path.getmtime) after the key of the first item was
\* taken: the keys are taken item by item, best is the first of the items
\* with the largest key so far; an exception of getmtime ends the call
RECURSIVE MaxByMtime(_, _)
MaxByMtime(best, rest) ==
    IF rest = <<>> THEN Ok(best)
    ELSE Then(getmtime(Head(rest)), LAMBDA seconds :
         MaxByMtime(IF seconds > best.mtime THEN Head(rest) ELSE best, Tail(rest)))

\* the path of an entry of the directory ("" names the directory itself)
EntryPath(directory, entry) == [parent |-> directory.path, name |-> entry.name]

\* find_latest_files: the path, None when nothing matches, or what glob or
\* getmtime raises
find_latest_files(directory, pattern) ==
    Then(glob(directory, pattern), LAMBDA matches :
    IF matches = <<>> THEN Ok(None)
    ELSE Then(getmtime(Head(matches)), LAMBDA seconds :
         Then(MaxByMtime(Head(matches), Tail(matches)), LAMBDA latest_entry :
         Ok(EntryPath(directory, latest_entry)))))

----------------------------------------------------------------------------
(* Artifact Loader: reading the files *)

\* An input file as main finds it: state is "missing" (no entry of the
\* directory matches the pattern), "dangling" or "forbidden" (the entry is
\* a link that os.stat cannot follow: its target does not exist, or lies in
\* a directory the process may not search), "unreadable" (open or read
\* raises: OSError, UnicodeDecodeError) or "readable"; content, of a
\* readable file, is what a read returns: the lexemes of a benchmark file,
\* the text of a CPU report or of a memory report.
MissingFile == [state |-> "missing"]

UnreadableFile == [state |-> "unreadable"]

BrokenLinkFile(state) == [state |-> state]

ReadableFile(content) == [state |-> "readable", content |-> content]

FileKinds == {"transaction", "sharding", "storage", "network", "cpu", "memory"}

\* parse_benchmark_results: the decoded document, None when the file is
\* missing, when its text is not JSON and when reading it raises
parse_benchmark_results(file) ==
    IF file.state = "missing" THEN None
    ELSE IF file.state \in {"unreadable", "dangling", "forbidden"}
    THEN None                                           \* except Exception
    ELSE Try(json_load(file.content), LAMBDA doc : doc,
             None)                                      \* except JSONDecodeError

\* text.split(c): the parts of the text between the characters c
RECURSIVE Split(_, _)
Split(text, c) ==
    LET at == Find(text, c, 1)
    IN  IF at = 0 THEN <<text>>
        ELSE <<SubSeq(text, 1, at - 1)>> \o Split(SubSeq(text, at + 1, Len(text)), c)

\* the first position from..Len(text) that holds whitespace, 0 when none does
FindWhitespace(text, from) ==
    LET found == {i \in from..Len(text) : Char(text, i) \in Whitespace}
    IN  IF found = {} THEN 0 ELSE CHOOSE i \in found : \A j \in found : i <= j

\* the first position from..Len(text) that holds no whitespace, 0 when none does
FindInk(text, from) ==
    LET found == {i \in from..Len(text) : Char(text, i) \notin Whitespace}
    IN  IF found = {} THEN 0 ELSE CHOOSE i \in found : \A j \in found : i <= j

\* re.split(r'\s+', text, maxsplit): the text cut at its first maxsplit runs
\* of whitespace; what follows the last cut is one part
RECURSIVE SplitWhitespace(_, _)
SplitWhitespace(text, maxsplit) ==
    LET at == FindWhitespace(text, 1)
        next == FindInk(text, at)
    IN  IF maxsplit = 0 \/ at = 0 THEN <<text>>
        ELSE IF next = 0 THEN <<SubSeq(text, 1, at - 1), "">>
        ELSE <<SubSeq(text, 1, at - 1)>>
             \o SplitWhitespace(SubSeq(text, next, Len(text)), maxsplit - 1)

\* text.find(word, from), for a word of two characters or more
FindWord(text, word, from) ==
    LET found == {i \in from..(Len(text) - Len(word) + 1) :
                    SubSeq(text, i, i + Len(word) - 1) = word}
    IN  IF found = {} THEN 0 ELSE CHOOSE i \in found : \A j \in found : i <= j

\* re.search(r'# Overhead.*?\n(.*?)(?:\n\n|\Z)', content, re.DOTALL): the
\* pattern matches at the first "# Overhead" when a newline follows it
\* anywhere in the text
IsOverheadHeader(content) ==
    LET header == FindWord(content, "# Overhead", 1)
    IN  header # 0 /\ Find(content, "\n", header + 10) # 0

\* group(1) of that match: the text after the first newline that follows
\* "# Overhead", up to the first two newlines in a row or to the end
OverheadSection(content) ==
    LET header == FindWord(content, "# Overhead", 1)
        start == Find(content, "\n", header + 10) + 1
        gap == FindWord(content, "\n\n", start)
    IN  IF gap = 0 THEN SubSeq(content, start, Len(content))
        ELSE SubSeq(content, start, gap - 1)

\* the parts of a line wanted for a hotspot
MinParts == 5

MaxSplit == 5

\* the body of "for line in lines": the hotspot of a line, or no hotspot
\* for a line of whitespace, a line that starts with "#", a line of fewer
\* than 5 parts and a first part that is no float once its "%" are stripped;
\* the function is the last part
LineHotspots(line) ==
    LET parts == SplitWhitespace(StripWhitespace(line), MaxSplit)
    IN  IF StripWhitespace(line) = "" \/ (line # "" /\ Char(line, 1) = "#") THEN <<>>
        ELSE IF Len(parts) < MinParts THEN <<>>
        ELSE Try(ParseFloat(Strip(parts[1], "%")), LAMBDA overhead :
                 <<[overhead |-> overhead, function |-> parts[Len(parts)]]>>,
                 <<>>)                                  \* except ValueError

\* the hotspots of the lines before the first line that gives none
RECURSIVE SectionHotspots_UntilSkipped(_)
SectionHotspots_UntilSkipped(lines) ==
    IF lines = <<>> \/ LineHotspots(Head(lines)) = <<>> THEN <<>>
    ELSE LineHotspots(Head(lines)) \o SectionHotspots_UntilSkipped(Tail(lines))

RECURSIVE SectionHotspots(_)
SectionHotspots(lines) ==
    IF lines = <<>> THEN <<>>
    ELSE LineHotspots(Head(lines)) \o SectionHotspots(Tail(lines))

\* overhead_section.group(1).strip().split('\n')
SectionLines(content) == Split(StripWhitespace(OverheadSection(content)), "\n")

\* parse_cpu_profile: the hotspots in the order of their lines
parse_cpu_profile(file) ==
    IF file.state = "missing" THEN None
    ELSE IF file.state \in {"unreadable", "dangling", "forbidden"}
    THEN None                                           \* except Exception
    ELSE IF ~IsOverheadHeader(file.content) THEN [hotspots |-> <<>>]
    ELSE [hotspots |-> SectionHotspots(SectionLines(file.content))]

\* The content of a memory report is its text, read in text mode (no "\r"),
\* of the characters U+0000 to U+00FF, among which \d is 0 to 9 and \s is
\* Whitespace.

\* r'==\d+== Heap Summary:.*?\n(.*?)(?:==\d+==\n\n|\Z)' under re.DOTALL
SummaryPattern ==
    PidMark \o <<Lit(" Heap Summary:"), LazyAny, Lit("\n"), Group(1, <<LazyAny>>),
                 Either(<<PidMark \o <<Lit("\n\n")>>, <<AtEnd>>>>)>>

\* r'==\d+==\s+total heap usage:\s+([\d,]+)\s+allocs,\s+([\d,]+)\s+frees,
\*   \s+([\d,]+)\s+bytes allocated'
TotalPattern ==
    PidMark \o <<SpacesPlus, Lit("total heap usage:"), SpacesPlus,
                 Group(1, <<NumberPlus>>), SpacesPlus, Lit("allocs,"), SpacesPlus,
                 Group(2, <<NumberPlus>>), SpacesPlus, Lit("frees,"), SpacesPlus,
                 Group(3, <<NumberPlus>>), SpacesPlus, Lit("bytes allocated")>>

\* r'==\d+== \d+ bytes in \d+ blocks are definitely lost.*?\n(.*?)
\*   (?:==\d+==\n\n|\Z)' under re.DOTALL
DetailedPattern ==
    PidMark \o <<Lit(" "), DigitsPlus, Lit(" bytes in "), DigitsPlus,
                 Lit(" blocks are definitely lost"), LazyAny, Lit("\n"),
                 Group(1, <<LazyAny>>),
                 Either(<<PidMark \o <<Lit("\n\n")>>, <<AtEnd>>>>)>>

\* r'==\d+==\s+([\d,]+)\s+bytes.*?\n(.*?)
\*   (?:==\d+==\n\n|==\d+==\s+[\d,]+\s+bytes|\Z)' under re.DOTALL
BlockPattern ==
    PidMark \o <<SpacesPlus, Group(1, <<NumberPlus>>), SpacesPlus, Lit("bytes"),
                 LazyAny, Lit("\n"), Group(2, <<LazyAny>>),
                 Either(<<PidMark \o <<Lit("\n\n")>>,
                          PidMark \o <<SpacesPlus, NumberPlus, SpacesPlus, Lit("bytes")>>,
                          <<AtEnd>>>>)>>

\* r'==\d+==\s+by\s+\d+:\s+(.*?)(?:\(|\n)'
FunctionPattern ==
    PidMark \o <<SpacesPlus, Lit("by"), SpacesPlus, DigitsPlus, Lit(":"), SpacesPlus,
                 Group(1, <<LazyInLine>>), Either(<<<<Lit("(")>>, <<Lit("\n")>>>>)>>

\* int(digits) of a text of digits: ValueError for the empty text
IntOfDigits(digits) ==
    IF digits = "" THEN Raise("ValueError") ELSE Ok(ShortValue(digits))

\* int(text.replace(',', '')) of a text of digits and commas
IntOfNumber(text) == IntOfDigits(Without(text, ","))

\* the three assignments to heap_summary after "if total_match:"
TotalsOf(summary_text, total_match) ==
    IF ~total_match.ok THEN Ok(EmptyDict)
    ELSE Then(IntOfNumber(GroupText(summary_text, total_match, 1)), LAMBDA allocs :
         Then(IntOfNumber(GroupText(summary_text, total_match, 2)), LAMBDA frees :
         Then(IntOfNumber(GroupText(summary_text, total_match, 3)), LAMBDA bytes :
         Ok([total_allocs |-> allocs, total_frees |-> frees, total_bytes |-> bytes]))))

\* the totals found in summary_text, {} when there are none
SummaryTotals(summary_text) ==
    TotalsOf(summary_text, re_search(TotalPattern, summary_text, 1))

SummaryText(content, summary_match) ==
    IF ~summary_match.ok THEN Ok(EmptyDict)
    ELSE SummaryTotals(GroupText(content, summary_match, 1))

\* heap_summary as the statements up to "memory_hotspots = []" leave it, or
\* the ValueError of an int()
HeapSummary(content) == SummaryText(content, re_search(SummaryPattern, content, 1))

FunctionName(allocation_stack, function_match) ==
    IF function_match.ok
    THEN StripWhitespace(GroupText(allocation_stack, function_match, 1))
    ELSE "Unknown"

\* the function of the first "by <digits>: <function>" line of the stack
\* that goes on with a "(" or a newline, "Unknown" when there is none
StackFunction(allocation_stack) ==
    FunctionName(allocation_stack, re_search(FunctionPattern, allocation_stack, 1))

\* the body of the loop over the blocks: what the block appends to
\* memory_hotspots, nothing when its int() raises ValueError
BlockHotspots(detailed_text, block) ==
    Try(IntOfNumber(GroupText(detailed_text, block, 1)), LAMBDA bytes :
        <<[bytes_lost |-> bytes,
           function |-> StackFunction(StripWhitespace(GroupText(detailed_text, block, 2)))]>>,
        <<>>)

\* re.finditer over the detailed text: a block runs through the mark and the
\* "<n> bytes" of the record after it, which therefore starts no block of
\* its own
LossBlocks(detailed_text) == re_finditer(BlockPattern, detailed_text, 1)

RECURSIVE HotspotsOfBlocks(_, _)
HotspotsOfBlocks(detailed_text, blocks) ==
    IF Len(blocks) = 0 THEN <<>>
    ELSE BlockHotspots(detailed_text, Head(blocks))
         \o HotspotsOfBlocks(detailed_text, Tail(blocks))

DetailedHotspots(content, detailed_match) ==
    IF ~detailed_match.ok THEN <<>>
    ELSE HotspotsOfBlocks(GroupText(content, detailed_match, 1),
                          LossBlocks(GroupText(content, detailed_match, 1)))

\* memory_hotspots: the detailed text starts after the line of the first
\* "definitely lost" record
MemoryHotspotsOf(content) ==
    DetailedHotspots(content, re_search(DetailedPattern, content, 1))

\* the try body of parse_memory_profile once the content was read
MemoryProfile(content) ==
    Then(HeapSummary(content), LAMBDA summary :
    Ok([heap_summary |-> summary, memory_hotspots |-> MemoryHotspotsOf(content)]))

parse_memory_profile(file) ==
    IF file.state = "missing" THEN None
    ELSE IF file.state \in {"unreadable", "dangling", "forbidden"}
    THEN None                                           \* except Exception
    ELSE Try(MemoryProfile(file.content), LAMBDA profile : profile, None)
----------------------------------------------------------------------------
(* Scalability Analyzer *)

\* The analyzers read a decoded benchmark document, a value of the kind
\* json_load gives.  What they build is a record (a dict with the keys the
\* code writes) or a sequence (a list); the sizes and throughputs they copy
\* from the document stay the values they were, and every quotient is a
\* float.

\* PairEfficiency with the last quotient inverted: size ratio over
\* throughput ratio
PairEfficiency_Inverted(counts, values, i) ==
    Then(PyTrueDiv(counts[i], counts[i-1]), LAMBDA count_ratio :
    Then(PyTrueDiv(values[i], values[i-1]), LAMBDA value_ratio :
    FloatTrueDiv(count_ratio, value_ratio)))

\* one iteration of the loop "for i in range(1, len(counts))": the three
\* divisions in source order; the first that fails raises
PairEfficiency(counts, values, i) ==
    Then(PyTrueDiv(counts[i], counts[i-1]), LAMBDA count_ratio :
    Then(PyTrueDiv(values[i], values[i-1]), LAMBDA value_ratio :
    FloatTrueDiv(value_ratio, count_ratio)))

TxScalabilityItem(counts, values, i, efficiency) ==
    [tx_count_from |-> counts[i-1], tx_count_to |-> counts[i],
     tps_from |-> values[i-1], tps_to |-> values[i],
     efficiency |-> efficiency]

ShardScalabilityItem(counts, values, i, efficiency) ==
    [shard_count_from |-> counts[i-1], shard_count_to |-> counts[i],
     sps_from |-> values[i-1], sps_to |-> values[i],
     efficiency |-> efficiency]

\* the loop over i = 2..Len(counts) (Python indices 1..len-1), appending one
\* item per consecutive pair; kind selects the item's key names
RECURSIVE ScalabilityLoop(_, _, _, _, _)
ScalabilityLoop(kind, counts, values, i, scalability) ==
    IF i > Len(counts) THEN Ok(scalability)
    ELSE Then(PairEfficiency(counts, values, i), LAMBDA efficiency :
         ScalabilityLoop(kind, counts, values, i + 1,
            Append(scalability,
               IF kind = "shard"
               THEN ShardScalabilityItem(counts, values, i, efficiency)
               ELSE TxScalabilityItem(counts, values, i, efficiency))))

\* the statements from the two list comprehensions to the average, in source
\* order; the first that fails raises.  value: the scalability list and the
\* three statistics
SeriesStatistics(kind, series, count_key, value_key) ==
    Then(PyIter(series), LAMBDA items :               \* for item in <no list>
    Then(Column(items, count_key), LAMBDA counts :    \* item['tx_count']
    Then(Column(items, value_key), LAMBDA values :    \* item['throughput_tps']
    Then(IF Len(counts) > 1
         THEN ScalabilityLoop(kind, counts, values, 2, <<>>)
         ELSE Ok(<<>>), LAMBDA scalability :
    Then(PyMin(values), LAMBDA min :                  \* min([])
    Then(PyMax(values), LAMBDA max :
    Then(PySum(values), LAMBDA sum :                  \* 0 + <no number>
    Then(PyTrueDiv(sum, PyInt(Len(values))), LAMBDA avg :
    Ok([scalability |-> scalability, min |-> min, max |-> max,
        avg |-> avg])))))))))

\* the body of "if 'throughput' in transaction_data" and of "if
\* 'cross_shard_transactions' in sharding_data": value is the analysis dict
TxThroughputAnalysis(throughput) ==
    Then(SeriesStatistics("tx", throughput, "tx_count", "throughput_tps"),
         LAMBDA s :
    Ok([data |-> throughput,
        scalability |-> s.scalability,
        min_tps |-> s.min,
        max_tps |-> s.max,
        avg_tps |-> s.avg]))

\* the body of "if 'shard_creation' in sharding_data"
ShardCreationAnalysis(creation) ==
    Then(SeriesStatistics("shard", creation, "shard_count", "throughput_sps"),
         LAMBDA s :
    Ok([data |-> creation,
        scalability |-> s.scalability,
        min_sps |-> s.min,
        max_sps |-> s.max,
        avg_sps |-> s.avg]))

\* "results[section]" once "not results or section not in results" was
\* false: value.absent tells that the function returns None
Section(results, section) ==
    IF ~PyTruthy(results) THEN Ok([absent |-> TRUE, data |-> None])
    ELSE Then(PyContains(results, section), LAMBDA has :
         IF ~has THEN Ok([absent |-> TRUE, data |-> None])
         ELSE Then(PyGetItem(results, section), LAMBDA data :
              Ok([absent |-> FALSE, data |-> data])))

\* "if key in data: series = data[key]; <analysis>", else None
OptionalAnalysis(data, key, Analysis(_)) ==
    Then(PyContains(data, key), LAMBDA has :
    IF ~has THEN Ok(None)
    ELSE Then(PyGetItem(data, key), LAMBDA series : Analysis(series)))

analyze_transaction_performance(results) ==
    Then(Section(results, "transaction_benchmark"), LAMBDA section :
    IF section.absent THEN Ok(None)
    ELSE Then(OptionalAnalysis(section.data, "throughput", TxThroughputAnalysis),
              LAMBDA throughput_analysis :
         Ok([throughput_analysis |-> throughput_analysis])))

\* analyze_sharding_performance that analyzes the section only when it holds
\* both series
analyze_sharding_performance_NeedsBoth(results) ==
    Then(Section(results, "sharding_benchmark"), LAMBDA section :
    IF section.absent THEN Ok(None)
    ELSE Then(PyContains(section.data, "shard_creation"), LAMBDA has_creation :
         Then(PyContains(section.data, "cross_shard_transactions"),
              LAMBDA has_cross_shard :
         IF ~(has_creation /\ has_cross_shard)
         THEN Ok([creation_analysis |-> None, cross_shard_analysis |-> None])
         ELSE Then(OptionalAnalysis(section.data, "shard_creation",
                                    ShardCreationAnalysis),
                   LAMBDA creation_analysis :
              Then(OptionalAnalysis(section.data, "cross_shard_transactions",
                                    TxThroughputAnalysis),
                   LAMBDA cross_shard_analysis :
              Ok([creation_analysis |-> creation_analysis,
                  cross_shard_analysis |-> cross_shard_analysis]))))))

analyze_sharding_performance(results) ==
    Then(Section(results, "sharding_benchmark"), LAMBDA section :
    IF section.absent THEN Ok(None)
    ELSE Then(OptionalAnalysis(section.data, "shard_creation",
                               ShardCreationAnalysis),
              LAMBDA creation_analysis :
         Then(OptionalAnalysis(section.data, "cross_shard_transactions",
                               TxThroughputAnalysis),
              LAMBDA cross_shard_analysis :
         Ok([creation_analysis |-> creation_analysis,
             cross_shard_analysis |-> cross_shard_analysis]))))

----------------------------------------------------------------------------
(* Bottleneck Detector *)

\* bool(v) of a dict the program built, or None
Truthy(v) == v # None /\ DOMAIN v # {}

\* "[:5]": the hotspots that take part in detection
TopHotspots == 5

\* the literals 1.0 and 100 of "1.0 - threshold / 100"
One == IntToFloat(1)

Hundred == IntToFloat(100)

\* "efficiency < 0.5": below this a scalability bottleneck is 'high'
HighEfficiency == ParseFloat("0.5").value

\* "overhead > 30" and "overhead > 15": the cpu_hotspot severity steps
HighOverhead == 30

MediumOverhead == 15

Min(a, b) == IF a < b THEN a ELSE b

\* EfficiencyCutoff with the threshold taken as a fraction: 1.0 - threshold
EfficiencyCutoff_Unscaled(t) == FloatSub(One, t)

\* 1.0 - threshold / 100, each operation rounded to a float
EfficiencyCutoff(t) == FloatSub(One, FloatTrueDiv(t, Hundred).value)

\* ScalabilitySeverity with the step at 0.7, the report's "needs improvement"
\* step, in place of 0.5
ScalabilitySeverity_ReportStep(efficiency) ==
    IF FloatLess(efficiency, ParseFloat("0.7").value) THEN "high" ELSE "medium"

ScalabilitySeverity(efficiency) ==
    IF FloatLess(efficiency, HighEfficiency) THEN "high" ELSE "medium"

\* [Op(item) for item in items]
Each(items, Op(_)) == [i \in DOMAIN items |-> Op(items[i])]

\* the bottleneck of a scalability item whose efficiency is below the cutoff;
\* from_key and to_key are the item keys the description quotes.  A
\* description is the values its text quotes, the formatted ones as the text
\* holds them; a recommendation is named by the type it belongs to.
ScalabilityBottleneck(item, type, from_key, to_key) ==
    [type |-> type,
     severity |-> ScalabilitySeverity(item.efficiency),
     description |-> [size_from |-> item[from_key],
                      size_to |-> item[to_key],
                      efficiency_2f |-> FormatFixed(item.efficiency, 2)],
     recommendation |-> type]

\* one "for item in <analysis>.get('scalability', [])" loop
ScalabilityLoopBottlenecks(analysis, type, from_key, to_key, t) ==
    Each(SelectSeq(IF "scalability" \in DOMAIN analysis
                   THEN analysis.scalability ELSE <<>>,
                   LAMBDA item : FloatLess(item.efficiency, EfficiencyCutoff(t))),
         LAMBDA item : ScalabilityBottleneck(item, type, from_key, to_key))

TransactionBottlenecks(results, t) ==
    IF "transaction_analysis" \in DOMAIN results
         /\ Truthy(results.transaction_analysis)
    THEN LET tx_analysis == results.transaction_analysis
         IN  IF "throughput_analysis" \in DOMAIN tx_analysis
                  /\ Truthy(tx_analysis.throughput_analysis)
             THEN ScalabilityLoopBottlenecks(tx_analysis.throughput_analysis,
                      "transaction_scalability", "tx_count_from", "tx_count_to", t)
             ELSE <<>>
    ELSE <<>>

ShardingBottlenecks(results, t) ==
    IF "sharding_analysis" \in DOMAIN results
         /\ Truthy(results.sharding_analysis)
    THEN LET shard_analysis == results.sharding_analysis
             creation ==
                 IF "creation_analysis" \in DOMAIN shard_analysis
                      /\ Truthy(shard_analysis.creation_analysis)
                 THEN ScalabilityLoopBottlenecks(shard_analysis.creation_analysis,
                          "shard_creation_scalability",
                          "shard_count_from", "shard_count_to", t)
                 ELSE <<>>
             cross_shard ==
                 IF "cross_shard_analysis" \in DOMAIN shard_analysis
                      /\ Truthy(shard_analysis.cross_shard_analysis)
                 THEN ScalabilityLoopBottlenecks(shard_analysis.cross_shard_analysis,
                          "cross_shard_scalability",
                          "tx_count_from", "tx_count_to", t)
                 ELSE <<>>
         IN  creation \o cross_shard
    ELSE <<>>

CpuSeverity(overhead) ==
    IF FloatLess(IntToFloat(HighOverhead), overhead) THEN "high"
    ELSE IF FloatLess(IntToFloat(MediumOverhead), overhead) THEN "medium"
    ELSE "low"

\* the bottleneck of a hotspot whose overhead is above the threshold
CpuBottleneck(hotspot) ==
    [type |-> "cpu_hotspot",
     severity |-> CpuSeverity(hotspot.overhead),
     description |-> [overhead_1f |-> FormatFixed(hotspot.overhead, 1),
                      function |-> hotspot.function],
     recommendation |-> "cpu_hotspot"]

\* CpuBottlenecks over every hotspot of the profile, the "[:5]" left out
CpuBottlenecks_AllHotspots(cpu, t) ==
    IF Truthy(cpu) /\ "hotspots" \in DOMAIN cpu
    THEN Each(SelectSeq(cpu.hotspots,
                        LAMBDA hotspot : FloatLess(t, hotspot.overhead)),
              CpuBottleneck)
    ELSE <<>>

\* CpuBottlenecks over the five hotspots of largest overhead, the list sorted
\* by overhead before the "[:5]"
CpuBottlenecks_LargestFive(cpu, t) ==
    IF Truthy(cpu) /\ "hotspots" \in DOMAIN cpu
    THEN LET hs == cpu.hotspots
             rank(i) == Cardinality({j \in DOMAIN hs :
                            \/ FloatLess(hs[i].overhead, hs[j].overhead)
                            \/ ~FloatLess(hs[j].overhead, hs[i].overhead) /\ j < i})
             sorted == [k \in DOMAIN hs |-> hs[CHOOSE i \in DOMAIN hs : rank(i) = k - 1]]
             top == SubSeq(sorted, 1, Min(TopHotspots, Len(sorted)))
         IN  Each(SelectSeq(top, LAMBDA hotspot : FloatLess(t, hotspot.overhead)),
                  CpuBottleneck)
    ELSE <<>>

\* CpuBottlenecks with a severity step that follows the threshold: 'high'
\* above three times the threshold
CpuBottlenecks_RelativeSeverity(cpu, t) ==
    IF Truthy(cpu) /\ "hotspots" \in DOMAIN cpu
    THEN Each(SelectSeq(SubSeq(cpu.hotspots, 1,
                               Min(TopHotspots, Len(cpu.hotspots))),
                        LAMBDA hotspot : FloatLess(t, hotspot.overhead)),
              LAMBDA hotspot :
                [CpuBottleneck(hotspot) EXCEPT
                    !.severity = IF FloatLess(FloatTimesInt(t, 3), hotspot.overhead)
                                 THEN "high" ELSE "medium"])
    ELSE <<>>

\* "for hotspot in cpu_profile['hotspots'][:5]": one bottleneck per hotspot
\* whose overhead is above the threshold
CpuBottlenecks(cpu, t) ==
    IF Truthy(cpu) /\ "hotspots" \in DOMAIN cpu
    THEN Each(SelectSeq(SubSeq(cpu.hotspots, 1,
                               Min(TopHotspots, Len(cpu.hotspots))),
                        LAMBDA hotspot : FloatLess(t, hotspot.overhead)),
              CpuBottleneck)
    ELSE <<>>

\* leak_count / heap['total_allocs'] on two ints
LeakRatio(leak_count, total_allocs) ==
    FloatTrueDiv(IntToFloat(leak_count), IntToFloat(total_allocs))

\* the memory_leak bottleneck; the description holds the count and
\* f"{ratio * 100:.1f}"
MemoryLeakBottleneck(leak_count, ratio) ==
    [type |-> "memory_leak",
     severity |-> "high",
     description |-> [leak_count |-> leak_count,
                      percent_1f |-> FormatFixed(FloatTimesInt(ratio, 100), 1)],
     recommendation |-> "memory_leak"]

\* MemoryLeakBottlenecks with ">=" for ">" in the comparison of the ratio
MemoryLeakBottlenecks_AtLeast(heap, t) ==
    IF "total_allocs" \in DOMAIN heap /\ "total_frees" \in DOMAIN heap
    THEN LET leak_count == heap.total_allocs - heap.total_frees
         IN  IF leak_count > 0
             THEN Then(LeakRatio(leak_count, heap.total_allocs), LAMBDA ratio :
                  IF ~FloatLess(ratio, FloatTrueDiv(t, Hundred).value)
                  THEN Ok(<<MemoryLeakBottleneck(leak_count, ratio)>>)
                  ELSE Ok(<<>>))
             ELSE Ok(<<>>)
    ELSE Ok(<<>>)

\* MemoryLeakBottlenecks with the operands of "and" exchanged: the ratio is
\* computed before leak_count > 0 is tested
MemoryLeakBottlenecks_DivideFirst(heap, t) ==
    IF "total_allocs" \in DOMAIN heap /\ "total_frees" \in DOMAIN heap
    THEN LET leak_count == heap.total_allocs - heap.total_frees
         IN  Then(LeakRatio(leak_count, heap.total_allocs), LAMBDA ratio :
             IF FloatLess(FloatTrueDiv(t, Hundred).value, ratio) /\ leak_count > 0
             THEN Ok(<<MemoryLeakBottleneck(leak_count, ratio)>>)
             ELSE Ok(<<>>))
    ELSE Ok(<<>>)

\* "leak_count > 0 and leak_count / heap['total_allocs'] > threshold / 100":
\* the division is evaluated only when leak_count > 0
MemoryLeakBottlenecks(heap, t) ==
    IF "total_allocs" \in DOMAIN heap /\ "total_frees" \in DOMAIN heap
    THEN LET leak_count == heap.total_allocs - heap.total_frees
         IN  IF leak_count > 0
             THEN Then(LeakRatio(leak_count, heap.total_allocs), LAMBDA ratio :
                  IF FloatLess(FloatTrueDiv(t, Hundred).value, ratio)
                  THEN Ok(<<MemoryLeakBottleneck(leak_count, ratio)>>)
                  ELSE Ok(<<>>))
             ELSE Ok(<<>>)
    ELSE Ok(<<>>)

\* MemoryHotspotBottlenecks gated on bytes_lost > 0
MemoryHotspotBottlenecks_NonZero(memory) ==
    IF "memory_hotspots" \in DOMAIN memory
    THEN LET top == SelectSeq(SubSeq(memory.memory_hotspots, 1,
                                     Min(TopHotspots, Len(memory.memory_hotspots))),
                              LAMBDA hotspot : hotspot.bytes_lost > 0)
         IN  [i \in DOMAIN top |->
                [type |-> "memory_hotspot",
                 severity |-> "medium",
                 description |-> [function |-> top[i].function,
                                  bytes_lost |-> top[i].bytes_lost],
                 recommendation |-> "memory_hotspot"]]
    ELSE <<>>

MemoryHotspotBottlenecks(memory) ==
    IF "memory_hotspots" \in DOMAIN memory
    THEN LET top == SubSeq(memory.memory_hotspots, 1,
                           Min(TopHotspots, Len(memory.memory_hotspots)))
         IN  [i \in DOMAIN top |->
                [type |-> "memory_hotspot",
                 severity |-> "medium",
                 description |-> [function |-> top[i].function,
                                  bytes_lost |-> top[i].bytes_lost],
                 recommendation |-> "memory_hotspot"]]
    ELSE <<>>

\* MemoryBottlenecks without "if memory_profile:": 'heap_summary' in None
MemoryBottlenecks_NoGuard(memory, t) ==
    IF memory = None THEN Raise("TypeError")
    ELSE Then(IF "heap_summary" \in DOMAIN memory /\ Truthy(memory.heap_summary)
              THEN MemoryLeakBottlenecks(memory.heap_summary, t)
              ELSE Ok(<<>>), LAMBDA leak :
         Ok(leak \o MemoryHotspotBottlenecks(memory)))

MemoryBottlenecks(memory, t) ==
    IF Truthy(memory)
    THEN Then(IF "heap_summary" \in DOMAIN memory /\ Truthy(memory.heap_summary)
              THEN MemoryLeakBottlenecks(memory.heap_summary, t)
              ELSE Ok(<<>>), LAMBDA leak :
         Ok(leak \o MemoryHotspotBottlenecks(memory)))
    ELSE Ok(<<>>)

\* identify_bottlenecks with the profile rules placed before the scalability
\* rules
identify_bottlenecks_ProfilesFirst(results, cpu, memory, t) ==
    Then(MemoryBottlenecks(memory, t), LAMBDA mem :
    Ok(CpuBottlenecks(cpu, t)
       \o mem
       \o TransactionBottlenecks(results, t)
       \o ShardingBottlenecks(results, t)))

\* identify_bottlenecks as a single-winner classifier: the profile rules run
\* only when no scalability rule fired
FirstFinding(scalability, cpu, memory, t) ==
    IF scalability # <<>> THEN Ok(scalability)
    ELSE Then(MemoryBottlenecks(memory, t), LAMBDA mem :
         Ok(CpuBottlenecks(cpu, t) \o mem))

identify_bottlenecks_FirstFinding(results, cpu, memory, t) ==
    FirstFinding(TransactionBottlenecks(results, t) \o ShardingBottlenecks(results, t),
                 cpu, memory, t)

\* value: the list of bottlenecks, in the order the rules append them
identify_bottlenecks(results, cpu, memory, t) ==
    Then(MemoryBottlenecks(memory, t), LAMBDA mem :
    Ok(TransactionBottlenecks(results, t)
       \o ShardingBottlenecks(results, t)
       \o CpuBottlenecks(cpu, t)
       \o mem))
----------------------------------------------------------------------------
(* Report Generator *)

\* Every fixed text of a report (titles, labels, headings) is an ASCII tag.

\* bool(v) of a list the program built
NonEmpty(list) == list # <<>>

\* os.path.join(output_dir, name) and os.path.basename of such a path
Join(directory, name) == <<directory, name>>

Basename(path) == path[2]

\* a chart as generate_charts records it: title, path of the image, description
Chart(name) ==
    [title |-> name, path |-> Join("output_dir", name \o ".png"), description |-> name]

\* the image plt.savefig writes for a chart: what was plotted
Plot(name, x, y) == [chart |-> name, x |-> x, y |-> y]

\* "[item[key] for item in <analysis>['data']]": the column the analyzer
\* read from the same list when it built the analysis
DataColumn(data, key) == Column(PyIter(data).value, key).value

\* the transaction charts: throughput by transaction count and, inside the
\* same "if", efficiency by pair of counts (the label of a pair is written
\* from its two counts)
TransactionPlots(results) ==
    IF "transaction_analysis" \in DOMAIN results /\ Truthy(results.transaction_analysis)
    THEN LET tx_analysis == results.transaction_analysis
         IN  IF "throughput_analysis" \in DOMAIN tx_analysis
                  /\ Truthy(tx_analysis.throughput_analysis)
             THEN LET throughput == tx_analysis.throughput_analysis
                  IN  IF "data" \in DOMAIN throughput /\ PyTruthy(throughput.data)
                      THEN <<Plot("transaction_throughput",
                                  DataColumn(throughput.data, "tx_count"),
                                  DataColumn(throughput.data, "throughput_tps"))>>
                           \o (IF "scalability" \in DOMAIN throughput
                                    /\ NonEmpty(throughput.scalability)
                               THEN <<Plot("transaction_scalability",
                                           [i \in DOMAIN throughput.scalability |->
                                              <<throughput.scalability[i].tx_count_from,
                                                throughput.scalability[i].tx_count_to>>],
                                           [i \in DOMAIN throughput.scalability |->
                                              throughput.scalability[i].efficiency])>>
                               ELSE <<>>)
                      ELSE <<>>
             ELSE <<>>
    ELSE <<>>

\* the sharding charts: shard creation and cross-shard throughput
ShardingPlots(results) ==
    IF "sharding_analysis" \in DOMAIN results /\ Truthy(results.sharding_analysis)
    THEN LET shard_analysis == results.sharding_analysis
             creation ==
                 IF "creation_analysis" \in DOMAIN shard_analysis
                      /\ Truthy(shard_analysis.creation_analysis)
                      /\ "data" \in DOMAIN shard_analysis.creation_analysis
                      /\ PyTruthy(shard_analysis.creation_analysis.data)
                 THEN <<Plot("shard_creation_performance",
                             DataColumn(shard_analysis.creation_analysis.data,
                                        "shard_count"),
                             DataColumn(shard_analysis.creation_analysis.data,
                                        "throughput_sps"))>>
                 ELSE <<>>
             cross_shard ==
                 IF "cross_shard_analysis" \in DOMAIN shard_analysis
                      /\ Truthy(shard_analysis.cross_shard_analysis)
                      /\ "data" \in DOMAIN shard_analysis.cross_shard_analysis
                      /\ PyTruthy(shard_analysis.cross_shard_analysis.data)
                 THEN <<Plot("cross_shard_performance",
                             DataColumn(shard_analysis.cross_shard_analysis.data,
                                        "tx_count"),
                             DataColumn(shard_analysis.cross_shard_analysis.data,
                                        "throughput_tps"))>>
                 ELSE <<>>
         IN  creation \o cross_shard
    ELSE <<>>

\* the keys of the dict bottleneck_types in the order they were first added
RECURSIVE TypesInOrder(_, _)
TypesInOrder(bottlenecks, seen) ==
    IF bottlenecks = <<>> THEN seen
    ELSE TypesInOrder(Tail(bottlenecks),
            IF \E i \in DOMAIN seen : seen[i] = Head(bottlenecks).type THEN seen
            ELSE Append(seen, Head(bottlenecks).type))

\* the summary chart: the number of bottlenecks of each type, drawn only when
\* the bottleneck list is not empty
BottleneckPlots(results) ==
    IF "bottlenecks" \in DOMAIN results /\ NonEmpty(results.bottlenecks)
    THEN LET types == TypesInOrder(results.bottlenecks, <<>>)
         IN  <<Plot("bottleneck_summary", types,
                    [i \in DOMAIN types |->
                       Cardinality({j \in DOMAIN results.bottlenecks :
                                       results.bottlenecks[j].type = types[i]})])>>
    ELSE <<>>

\* the charts of generate_charts in the order it draws them
ChartPlots(results) ==
    TransactionPlots(results) \o ShardingPlots(results) \o BottleneckPlots(results)

\* datetime.now() as the reports print it
Now == "2024-01-01 00:00:00"

\* one f.write of a report: the tag of its fixed text and the values
\* interpolated into it
Written(tag, values) == [text |-> tag, values |-> values]

HasBottlenecks(results) ==
    "bottlenecks" \in DOMAIN results /\ NonEmpty(results.bottlenecks)

CountSeverity(bottlenecks, severity) ==
    Cardinality({i \in DOMAIN bottlenecks : bottlenecks[i].severity = severity})

\* the literals of "efficiency >= 0.9" and "efficiency >= 0.7"
GoodEfficiency == ParseFloat("0.9").value

AcceptableEfficiency == ParseFloat("0.7").value

\* a >= b on floats
FloatAtLeast(a, b) == FloatLess(b, a) \/ FloatEq(a, b)

\* ">= 0.9" good, ">= 0.7" acceptable, below that in need of improvement
Evaluation(efficiency) ==
    IF FloatAtLeast(efficiency, GoodEfficiency) THEN "good"
    ELSE IF FloatAtLeast(efficiency, AcceptableEfficiency) THEN "acceptable"
    ELSE "needs_improvement"

\* the three throughput lines of an analysis, each value written with
\* ":.2f"; keys are its min, max and avg keys.  The minimum and the maximum
\* are numbers of the document (the analyzer added them up), the average is
\* a float.
ThroughputLines(analysis, keys) ==
    <<Written("min_throughput", <<PyFormatFixed(analysis[keys[1]], 2).value>>),
      Written("max_throughput", <<PyFormatFixed(analysis[keys[2]], 2).value>>),
      Written("avg_throughput", <<FormatFixed(analysis[keys[3]], 2)>>)>>

ScalabilityLines(scalability) ==
    [i \in DOMAIN scalability |->
        Written("scalability_item",
                <<scalability[i].tx_count_from, scalability[i].tx_count_to,
                  FormatFixed(scalability[i].efficiency, 2),
                  Evaluation(scalability[i].efficiency)>>)]

\* the transaction section of the text and HTML reports
TransactionSection(results) ==
    IF "transaction_analysis" \in DOMAIN results /\ Truthy(results.transaction_analysis)
    THEN LET tx_analysis == results.transaction_analysis
         IN  <<Written("transaction_heading", <<>>)>>
             \o (IF "throughput_analysis" \in DOMAIN tx_analysis
                      /\ Truthy(tx_analysis.throughput_analysis)
                 THEN LET throughput == tx_analysis.throughput_analysis
                      IN  ThroughputLines(throughput, <<"min_tps", "max_tps", "avg_tps">>)
                          \o (IF "scalability" \in DOMAIN throughput
                                   /\ NonEmpty(throughput.scalability)
                              THEN <<Written("scalability_heading", <<>>)>>
                                   \o ScalabilityLines(throughput.scalability)
                              ELSE <<>>)
                 ELSE <<>>)
    ELSE <<>>

\* the sharding section of the text and HTML reports
ShardingSection(results) ==
    IF "sharding_analysis" \in DOMAIN results /\ Truthy(results.sharding_analysis)
    THEN LET shard_analysis == results.sharding_analysis
         IN  <<Written("sharding_heading", <<>>)>>
             \o (IF "creation_analysis" \in DOMAIN shard_analysis
                      /\ Truthy(shard_analysis.creation_analysis)
                 THEN <<Written("creation_heading", <<>>)>>
                      \o ThroughputLines(shard_analysis.creation_analysis,
                                         <<"min_sps", "max_sps", "avg_sps">>)
                 ELSE <<>>)
             \o (IF "cross_shard_analysis" \in DOMAIN shard_analysis
                      /\ Truthy(shard_analysis.cross_shard_analysis)
                 THEN <<Written("cross_shard_heading", <<>>)>>
                      \o ThroughputLines(shard_analysis.cross_shard_analysis,
                                         <<"min_tps", "max_tps", "avg_tps">>)
                 ELSE <<>>)
    ELSE <<>>

\* the closing list of recommendations
RecommendationLines(results) ==
    <<Written("recommendations_heading", <<>>)>>
    \o (IF HasBottlenecks(results)
        THEN [i \in DOMAIN results.bottlenecks |->
                Written("recommendation", <<results.bottlenecks[i].recommendation>>)]
        ELSE <<Written("performance_is_good", <<>>)>>)

\* the counts of bottlenecks, or the line saying that none was found
SummaryLines(results) ==
    IF HasBottlenecks(results)
    THEN <<Written("bottleneck_count", <<Len(results.bottlenecks)>>),
           Written("high_count", <<CountSeverity(results.bottlenecks, "high")>>),
           Written("medium_count", <<CountSeverity(results.bottlenecks, "medium")>>),
           Written("low_count", <<CountSeverity(results.bottlenecks, "low")>>)>>
    ELSE <<Written("no_bottleneck", <<>>)>>

\* the text generate_text_report writes
TextReport(results) ==
    <<Written("title", <<>>), Written("generated", <<Now>>)>>
    \o SummaryLines(results)
    \o (IF HasBottlenecks(results)
        THEN <<Written("details_heading", <<>>)>>
             \o [i \in DOMAIN results.bottlenecks |->
                   Written("bottleneck",
                           <<i, results.bottlenecks[i].severity,
                             results.bottlenecks[i].type,
                             results.bottlenecks[i].description,
                             results.bottlenecks[i].recommendation>>)]
        ELSE <<>>)
    \o TransactionSection(results)
    \o ShardingSection(results)
    \o RecommendationLines(results)

\* the summary block of the HTML report
HtmlSummaryLines(results) ==
    IF HasBottlenecks(results) THEN SummaryLines(results)
    ELSE <<Written("no_bottleneck", <<>>), Written("performance_is_good", <<>>)>>

\* the text generate_html_report writes; a chart is shown by its title, the
\* base name of its path and its description
HtmlReport(results, chart_list) ==
    <<Written("title", <<>>), Written("generated", <<Now>>)>>
    \o HtmlSummaryLines(results)
    \o (IF NonEmpty(chart_list)
        THEN <<Written("charts_heading", <<>>)>>
             \o [i \in DOMAIN chart_list |->
                   Written("chart", <<chart_list[i].title,
                                      Basename(chart_list[i].path),
                                      chart_list[i].description>>)]
        ELSE <<>>)
    \o (IF HasBottlenecks(results)
        THEN <<Written("details_heading", <<>>)>>
             \o [i \in DOMAIN results.bottlenecks |->
                   Written("bottleneck",
                           <<results.bottlenecks[i].severity,
                             results.bottlenecks[i].type,
                             results.bottlenecks[i].description,
                             results.bottlenecks[i].recommendation>>)]
        ELSE <<>>)
    \o TransactionSection(results)
    \o ShardingSection(results)
    \o RecommendationLines(results)

\* datetime.now().isoformat()
NowIso == "2024-01-01T00:00:00"

\* What json.dump is given: the report document as a value, each dict with
\* its keys in the order the program inserted them.  The description of a
\* bottleneck is the sentence of its values, and the recommendation of a
\* bottleneck and the strs of a chart are the program's fixed sentences.

\* an item of a scalability list: the four numbers of the document and the
\* float efficiency
ScalabilityItemValue(item, keys) ==
    PyDict([i \in 1..Len(keys) |-> Item(keys[i], item[keys[i]])])

TxShape ==
    [min |-> "min_tps", max |-> "max_tps", avg |-> "avg_tps",
     item |-> <<"tx_count_from", "tx_count_to", "tps_from", "tps_to", "efficiency">>]

ShardShape ==
    [min |-> "min_sps", max |-> "max_sps", avg |-> "avg_sps",
     item |-> <<"shard_count_from", "shard_count_to", "sps_from", "sps_to",
                "efficiency">>]

\* a throughput analysis, or None; shape names its keys
ThroughputValue(analysis, shape) ==
    IF analysis = None THEN None
    ELSE PyDict(<<Item("data", analysis.data),
                  Item("scalability",
                       PyList([i \in DOMAIN analysis.scalability |->
                                 ScalabilityItemValue(analysis.scalability[i],
                                                      shape.item)])),
                  Item(shape.min, analysis[shape.min]),
                  Item(shape.max, analysis[shape.max]),
                  Item(shape.avg, analysis[shape.avg])>>)

TransactionAnalysisValue(analysis) ==
    IF analysis = None THEN None
    ELSE PyDict(<<Item("throughput_analysis",
                       ThroughputValue(analysis.throughput_analysis, TxShape))>>)

ShardingAnalysisValue(analysis) ==
    IF analysis = None THEN None
    ELSE PyDict(<<Item("creation_analysis",
                       ThroughputValue(analysis.creation_analysis, ShardShape)),
                  Item("cross_shard_analysis",
                       ThroughputValue(analysis.cross_shard_analysis, TxShape))>>)

BottleneckValue(bottleneck) ==
    PyDict(<<Item("type", PyStr(bottleneck.type)),
             Item("severity", PyStr(bottleneck.severity)),
             Item("description", PyMessage(bottleneck.description)),
             Item("recommendation", PyStr(bottleneck.recommendation))>>)

ChartValue(chart) ==
    PyDict(<<Item("title", PyStr(chart.title)),
             Item("path", PyStr(chart.path)),
             Item("description", PyStr(chart.description))>>)

ReportKeys ==
    <<"transaction_analysis", "sharding_analysis", "bottlenecks", "charts", "timestamp">>

ReportValue(report_data) ==
    LET keys == SelectSeq(ReportKeys, LAMBDA k : k \in DOMAIN report_data)
        value(k) ==
            CASE k = "transaction_analysis" ->
                    TransactionAnalysisValue(report_data.transaction_analysis)
              [] k = "sharding_analysis" ->
                    ShardingAnalysisValue(report_data.sharding_analysis)
              [] k = "bottlenecks" ->
                    PyList([i \in DOMAIN report_data.bottlenecks |->
                              BottleneckValue(report_data.bottlenecks[i])])
              [] k = "charts" ->
                    PyList([i \in DOMAIN report_data.charts |->
                              ChartValue(report_data.charts[i])])
              [] k = "timestamp" -> PyStr(report_data.timestamp)
    IN  PyDict([i \in 1..Len(keys) |-> Item(keys[i], value(keys[i]))])

\* json.dump(report_data, f, indent=2): the text of the report document.
\* The white space of indent=2 is no token.
json_dump(report_data) == DumpValue(ReportValue(report_data))

\* generate_json_report: the document is a shallow copy of the analysis with
\* the time added; analysis_results itself is left as it was
JsonReportData(results) == DictSet(results, "timestamp", NowIso)

\* What a generator did: the exception it raised or "none", the value it
\* returned, the files it wrote (name and content, in order) and the
\* analysis_results object as the call left it.
Generated(e, value, written, results) ==
    [raised |-> e, value |-> value, written |-> written, analysis_results |-> results]

\* generate_charts: the images are saved one by one; a savefig that fails
\* raises, the images saved before it stay
generate_charts(results, cannot_write) ==
    LET plots == ChartPlots(results)
        failing == {i \in DOMAIN plots : plots[i].chart \o ".png" \in cannot_write}
        saved == IF failing = {} THEN Len(plots)
                 ELSE (CHOOSE x \in failing : \A y \in failing : x <= y) - 1
    IN  Generated(IF failing = {} THEN "none" ELSE "OSError",
                  [i \in 1..saved |-> Chart(plots[i].chart)],
                  [i \in 1..saved |-> <<plots[i].chart \o ".png", plots[i]>>],
                  results)

generate_text_report(results, cannot_write) ==
    IF "bottleneck_analysis.txt" \in cannot_write
    THEN Generated("OSError", None, <<>>, results)       \* open(report_path, 'w')
    ELSE Generated("none", Join("output_dir", "bottleneck_analysis.txt"),
                   <<<<"bottleneck_analysis.txt", TextReport(results)>>>>, results)

\* generate_json_report that adds the timestamp to the dict it was given
generate_json_report_InPlace(results, cannot_write) ==
    IF "bottleneck_analysis.json" \in cannot_write
    THEN Generated("OSError", None, <<>>, JsonReportData(results))
    ELSE Generated("none", Join("output_dir", "bottleneck_analysis.json"),
                   <<<<"bottleneck_analysis.json", json_dump(JsonReportData(results))>>>>,
                   JsonReportData(results))

generate_json_report(results, cannot_write) ==
    IF "bottleneck_analysis.json" \in cannot_write
    THEN Generated("OSError", None, <<>>, results)       \* open(report_path, 'w')
    ELSE Generated("none", Join("output_dir", "bottleneck_analysis.json"),
                   <<<<"bottleneck_analysis.json", json_dump(JsonReportData(results))>>>>,
                   results)

generate_html_report(results, chart_list, cannot_write) ==
    IF "bottleneck_analysis.html" \in cannot_write
    THEN Generated("OSError", None, <<>>, results)       \* open(report_path, 'w')
    ELSE Generated("none", Join("output_dir", "bottleneck_analysis.html"),
                   <<<<"bottleneck_analysis.html", HtmlReport(results, chart_list)>>>>,
                   results)

----------------------------------------------------------------------------
(* Inputs of a run *)

\* longest throughput series drawn over every sample
MaxSeries == 2

\* longest hotspot list drawn over every overhead value
MaxShortHotspots == 1

\* longest CPU and memory hotspot list drawn
MaxHotspots == 6

\* --threshold as typed on the command line; argparse applies float() to it
ThresholdTexts == {"-10", "10", "15", "70"}

Thresholds == {ParseFloat(text).value : text \in ThresholdTexts}

\* <<workload size, throughput>>, two numbers of a benchmark document
Sample(size, throughput) == <<PyInt(size), PyInt(throughput)>>

Samples == {Sample(100, 100), Sample(200, 80), Sample(200, 170), Sample(200, 190),
            Sample(200, 100)}

SeqsUpTo(S, n) == UNION {[1..k -> S] : k \in 0..n}

\* the samples the two sharding series are drawn from
ShardingSamples == {Sample(100, 100), Sample(200, 80), Sample(200, 170)}

\* series drawn besides: sizes 100, 200 with throughputs 50, 100; sizes 100,
\* 200, 400 with throughputs 1000, 1500, 2000; sizes 3, 5 with throughputs
\* 2, 3 (the quotient of 1.5 by 5/3 is the float below 0.9); sizes 100, 200
\* with throughputs 100, 60 (efficiency 0.3) and with the float throughputs
\* 1.5, 2.25; three samples that give efficiencies 0.4 and 2.125, and that
\* give 0.95 and 0.4; sizes that decrease
ExampleSeries ==
    {<<Sample(100, 50), Sample(200, 100)>>,
     <<Sample(100, 1000), Sample(200, 1500), Sample(400, 2000)>>,
     <<Sample(3, 2), Sample(5, 3)>>,
     <<Sample(100, 100), Sample(200, 60)>>,
     <<<<PyInt(100), ParseFloat("1.5").value>>,
       <<PyInt(200), ParseFloat("2.25").value>>>>,
     <<Sample(100, 100), Sample(200, 80), Sample(200, 170)>>,
     <<Sample(100, 100), Sample(200, 190), Sample(400, 152)>>,
     <<Sample(200, 190), Sample(100, 100)>>}

\* series with a zero: a zero size and a zero throughput at the first, at a
\* middle and at the last position
ZeroSeries ==
    {<<Sample(0, 100)>>, <<Sample(100, 0)>>,
     <<Sample(0, 100), Sample(100, 100)>>, <<Sample(100, 0), Sample(200, 80)>>,
     <<Sample(100, 100), Sample(0, 100)>>, <<Sample(100, 100), Sample(100, 0)>>,
     <<Sample(100, 100), Sample(0, 100), Sample(200, 80)>>,
     <<Sample(100, 100), Sample(200, 0), Sample(400, 80)>>}

SeriesSet == SeqsUpTo(Samples, MaxSeries) \cup ExampleSeries \cup ZeroSeries

ShardingSeriesSet == SeqsUpTo(ShardingSamples, MaxSeries) \cup ZeroSeries

TxSeries(s) ==
    PyList([i \in DOMAIN s |->
              PyDict(<<Item("tx_count", s[i][1]), Item("throughput_tps", s[i][2])>>)])

ShardSeries(s) ==
    PyList([i \in DOMAIN s |->
              PyDict(<<Item("shard_count", s[i][1]), Item("throughput_sps", s[i][2])>>)])

\* a dict with one key
Doc(key, value) == PyDict(<<Item(key, value)>>)

EmptyObject == PyDict(<<>>)

\* a benchmark document with no section this tool reads
OtherDoc == Doc("metadata", EmptyObject)

\* the document {"tag": "None"}
TagDoc == Doc("tag", PyStr("None"))

TxDocs ==
    {None, EmptyObject, OtherDoc, TagDoc, PyList(<<>>),
     Doc("transaction_benchmark", None), Doc("transaction_benchmark", EmptyObject)}
    \cup {Doc("transaction_benchmark", Doc("throughput", TxSeries(s))) : s \in SeriesSet}

\* the sharding section built from its two optional series
ShardingData(creation, cross) ==
    PyDict((IF creation.key
            THEN <<Item("shard_creation", ShardSeries(creation.series))>> ELSE <<>>)
           \o (IF cross.key
               THEN <<Item("cross_shard_transactions", TxSeries(cross.series))>>
               ELSE <<>>))

NoSeries == [key |-> FALSE, series |-> <<>>]

BackgroundSeries == [key |-> TRUE, series |-> <<Sample(100, 100), Sample(200, 80)>>]

AnySeries == {[key |-> TRUE, series |-> s] : s \in ShardingSeriesSet}

ShardingDocs ==
    {None, EmptyObject, OtherDoc, TagDoc, Doc("sharding_benchmark", None),
     Doc("sharding_benchmark", ShardingData(NoSeries, NoSeries))}
    \cup {Doc("sharding_benchmark", ShardingData(c, NoSeries)) : c \in AnySeries}
    \cup {Doc("sharding_benchmark", ShardingData(NoSeries, x)) : x \in AnySeries}
    \cup {Doc("sharding_benchmark", ShardingData(BackgroundSeries, BackgroundSeries))}

\* a benchmark file that was found and parsed to doc, or no file
NoFile == [file |-> FALSE, doc |-> None]

File(d) == [file |-> TRUE, doc |-> d]

\* the first field of a row of a CPU report without its "%"
Overheads == {"5", "10", "12", "15", "16", "30", "31"}

LongOverheads == {"5", "31"}

FunctionNames == <<"f1", "f2", "f3", "f4", "f5", "f6", "f7", "f8">>

CpuHotspots(overheads) ==
    [i \in DOMAIN overheads |->
        [overhead |-> ParseFloat(overheads[i]).value, function |-> FunctionNames[i]]]

\* the first hotspots of the long lists drawn
LongPrefix == <<"31", "5", "31", "5">>

LongLists(values, longest) ==
    {LongPrefix \o rest : rest \in SeqsUpTo(values, longest - Len(LongPrefix))}

CpuProfiles ==
    {None, [hotspots |-> CpuHotspots(<<"0.35", "15.05", "30.5">>)],
     [hotspots |-> CpuHotspots(<<"12", "16", "5", "30", "10", "31">>)]}
    \cup {[hotspots |-> CpuHotspots(o)] : o \in SeqsUpTo(Overheads, MaxShortHotspots)}
    \cup {[hotspots |-> CpuHotspots(o)] : o \in LongLists(LongOverheads, MaxHotspots)}

\* <<total_allocs, total_frees>>
HeapTotals == {<<0, 0>>, <<0, 5>>, <<10, 7>>, <<10, 8>>, <<10, 9>>, <<10, 10>>,
               <<1000, 700>>, <<1000, 900>>, <<1000, 950>>}

HeapSummaries ==
    {EmptyDict}
    \cup {[total_allocs |-> h[1], total_frees |-> h[2], total_bytes |-> 16 * h[1]] :
             h \in HeapTotals}

BytesLost == {0, 64}

MemoryHotspots(bytes) ==
    [i \in DOMAIN bytes |-> [bytes_lost |-> bytes[i], function |-> FunctionNames[i]]]

\* the lists of bytes lost drawn
BytesLostLists ==
    SeqsUpTo(BytesLost, MaxShortHotspots + 1)
    \cup {[i \in 1..n |-> 64] : n \in 1..MaxHotspots}

\* every heap summary with no hotspot and with one, and every list of
\* hotspots with no heap totals and with a leak
MemoryProfiles ==
    {None}
    \cup {[heap_summary |-> h, memory_hotspots |-> MemoryHotspots(b)] :
             h \in HeapSummaries, b \in {<<>>, <<64>>}}
    \cup {[heap_summary |-> h, memory_hotspots |-> MemoryHotspots(b)] :
             h \in {EmptyDict, [total_allocs |-> 10, total_frees |-> 7,
                                total_bytes |-> 160]},
             b \in BytesLostLists}

\* the other inputs of a run in which one input ranges over its whole set
Backgrounds ==
    {[transaction |-> NoFile, sharding |-> NoFile, cpu |-> None, memory |-> None],
     [transaction |-> File(OtherDoc), sharding |-> File(OtherDoc),
      cpu |-> [hotspots |-> <<>>],
      memory |-> [heap_summary |-> EmptyDict, memory_hotspots |-> <<>>]],
     [transaction |-> File(Doc("transaction_benchmark",
                               Doc("throughput", TxSeries(BackgroundSeries.series)))),
      sharding |-> File(Doc("sharding_benchmark",
                            ShardingData(BackgroundSeries, BackgroundSeries))),
      cpu |-> [hotspots |-> CpuHotspots(<<"31", "12">>)],
      memory |-> [heap_summary |-> [total_allocs |-> 10, total_frees |-> 7,
                                    total_bytes |-> 160],
                  memory_hotspots |-> MemoryHotspots(<<64>>)]]}

RunInputs ==
    UNION {{[b EXCEPT !.transaction = File(d)] : d \in TxDocs}
           \cup {[b EXCEPT !.sharding = File(d)] : d \in ShardingDocs}
           \cup {[b EXCEPT !.cpu = c] : c \in CpuProfiles}
           \cup {[b EXCEPT !.memory = m] : m \in MemoryProfiles}
           \cup {b} : b \in Backgrounds}

\* main's benchmark_results: a key for each benchmark file that was found
BenchmarkResults(in) ==
    [k \in (IF in.transaction.file THEN {"transaction"} ELSE {})
           \cup (IF in.sharding.file THEN {"sharding"} ELSE {}) |->
        IF k = "transaction" THEN in.transaction.doc ELSE in.sharding.doc]

----------------------------------------------------------------------------
(* Input files of a run *)

\* the text of a throughput series
SeriesText(series, size_key, value_key) ==
    JArray([i \in DOMAIN series |->
              JObject(<<JMember(size_key, DumpValue(series[i][1])),
                        JMember(value_key, DumpValue(series[i][2]))>>)])

\* a document with one section
SectionText(section, text) == JObject(<<JMember(section, text)>>)

TransactionText(series) ==
    SectionText("transaction_benchmark",
        JObject(<<JMember("throughput", SeriesText(series, "tx_count", "throughput_tps"))>>))

CreationMember(series) ==
    JMember("shard_creation", SeriesText(series, "shard_count", "throughput_sps"))

CrossShardMember(series) ==
    JMember("cross_shard_transactions", SeriesText(series, "tx_count", "throughput_tps"))

\* the series the files hold
FileSeries ==
    {<<>>, <<Sample(100, 100)>>, <<Sample(100, 100), Sample(200, 80)>>,
     <<Sample(0, 100), Sample(100, 100)>>, <<Sample(200, 190), Sample(100, 100)>>}
    \cup ExampleSeries

\* a transaction document written by hand: the key of the section with an
\* escaped character, the numbers with exponents and with zeros at the end
HandWrittenText ==
    <<Tok("{"), StringTok("transaction\\u005Fbenchmark"), Tok(":")>>
    \o JObject(<<JMember("throughput",
          JArray(<<JObject(<<JMember("tx_count", <<NumberTok("1e2")>>),
                             JMember("throughput_tps", <<NumberTok("100.00")>>)>>),
                   JObject(<<JMember("tx_count", <<NumberTok("200")>>),
                             JMember("throughput_tps", <<NumberTok("1.6E+2")>>)>>),
                   JObject(<<JMember("tx_count", <<NumberTok("0.4e3")>>),
                             JMember("throughput_tps", <<NumberTok("-0")>>)>>)>>))>>)
    \o <<Tok("}")>>

\* a transaction document whose throughputs lie far apart: they, and what
\* is computed from them, are written with an exponent
WideRangeText ==
    SectionText("transaction_benchmark",
        JObject(<<JMember("throughput",
            JArray(<<JObject(<<JMember("tx_count", <<NumberTok("1")>>),
                               JMember("throughput_tps", <<NumberTok("1e22")>>)>>),
                     JObject(<<JMember("tx_count", <<NumberTok("2")>>),
                               JMember("throughput_tps", <<NumberTok("2.5e-7")>>)>>)>>))>>))

\* texts that are not JSON: an empty file, a bare word, a number that
\* starts with 0, a number that ends with its point, a string with an
\* escape that JSON does not know, a string with a tab in it, a document cut
\* before its last brace, a comma before the closing brace, a key without
\* its colon, two documents one after the other
BrokenTexts ==
    {<<>>,
     <<Tok("word")>>,
     <<NumberTok("01")>>,
     <<NumberTok("1.")>>,
     <<StringTok("a\\x41")>>,
     <<StringTok("a\tb")>>,
     SubSeq(TransactionText(BackgroundSeries.series), 1,
            Len(TransactionText(BackgroundSeries.series)) - 1),
     <<Tok("{"), StringTok("transaction_benchmark"), Tok(":"), Tok("{"), Tok("}"),
       Tok(","), Tok("}")>>,
     <<Tok("{"), StringTok("sharding_benchmark"), Tok("{"), Tok("}"), Tok("}")>>,
     JObject(<<>>) \o JObject(<<>>)}

FilesOf(texts) ==
    {MissingFile, UnreadableFile, BrokenLinkFile("dangling"), BrokenLinkFile("forbidden")}
    \cup {ReadableFile(t) : t \in texts}

\* the text {"tag": "None"}
TagText == SectionText("tag", <<StringTok("None")>>)

TransactionFiles ==
    FilesOf({<<Tok("null")>>, JObject(<<>>), JArray(<<>>), TagText, <<Tok("NaN")>>,
             SectionText("metadata", JObject(<<>>)),
             SectionText("transaction_benchmark", <<Tok("null")>>),
             SectionText("transaction_benchmark", JObject(<<>>))}
            \cup {TransactionText(series) : series \in FileSeries}
            \cup {HandWrittenText, WideRangeText}
            \cup BrokenTexts)

ShardingFiles ==
    FilesOf({<<Tok("null")>>, JObject(<<>>), TagText,
             SectionText("sharding_benchmark", <<Tok("null")>>),
             SectionText("sharding_benchmark", JObject(<<>>)),
             SectionText("sharding_benchmark",
                 JObject(<<CreationMember(BackgroundSeries.series),
                           CrossShardMember(BackgroundSeries.series)>>))}
            \cup {SectionText("sharding_benchmark", JObject(<<CreationMember(series)>>)) :
                     series \in FileSeries}
            \cup {SectionText("sharding_benchmark", JObject(<<CrossShardMember(series)>>)) :
                     series \in FileSeries}
            \cup BrokenTexts)

\* storage and network documents: main parses them and reads nothing of them
OtherBenchmarkFiles ==
    FilesOf({JObject(<<>>), SectionText("storage_benchmark", JObject(<<>>)),
             <<Tok("word")>>, TransactionText(BackgroundSeries.series)})

\* most rows drawn after the header of a CPU report, over two overheads
MaxRows == 6

\* most lines drawn after the header over every kind of line
MaxShortRows == 1

\* the texts joined, each followed by a newline
RECURSIVE Lines(_)
Lines(texts) == IF texts = <<>> THEN "" ELSE Head(texts) \o "\n" \o Lines(Tail(texts))

\* a row of the hotspot table: overhead, command, shared object, "[.]", symbol
Row(overhead, function) ==
    "    " \o overhead \o "%  shardx  libshardx.so  [.] " \o function

HeaderLine == "# Overhead  Command  Shared Object  Symbol"

\* the lines of a CPU report other than well-formed rows: an empty line, a
\* line of blanks, comment lines, a first field that is no number, a row of
\* two fields, a first field with "%" on both sides and a symbol of two
\* words, a number with two points
OddLines ==
    {"",
     "   ",
     "#",
     "# ........  .......  .............  ......",
     "    x%  shardx  libshardx.so  [.] bad_overhead",
     "    40%  short",
     "%16.5%%  a  b  c  operator new",
     "    1.2.3  shardx  libshardx.so  [.] two_dots"}

\* lines with whitespace other than blanks and tabs: rows whose fields a
\* vertical tab, the separators U+001C to U+001F or a no-break space part,
\* with such a character before and after them, a comment line after a
\* no-break space, and a row with fewer than 5 fields
WhitespaceLines ==
    {"10%" \o VerticalTab \o "shardx libshardx.so [.] in_vt",
     "10% shardx libshardx.so [.] fn" \o VerticalTab \o "after_vt",
     "10%" \o FileSeparator \o "shardx" \o GroupSeparator \o "so" \o RecordSeparator
        \o "[.]" \o UnitSeparator \o "in_separators",
     VerticalTab \o "10% shardx libshardx.so [.] in_tabs" \o NextLine,
     NoBreakSpace \o "# 10% shardx libshardx.so [.] in_comment",
     "10%" \o NoBreakSpace \o "shardx  libshardx.so" \o NextLine \o "short"}

\* an overhead alone stands for the row that carries it and names its
\* position in the symbol
IsOverhead(line) == line \in {o \o ".00" : o \in Overheads}

RowAt(i, line) == IF IsOverhead(line) THEN Row(line, FunctionNames[i]) ELSE line

Rows(lines) == [i \in DOMAIN lines |-> RowAt(i, lines[i])]

OverheadOnly(n) == n \o ".00"

\* a symbol with quotes, a backslash and a letter outside ASCII
QuotedName == "operator\"\"_km café\\bar"

CpuTexts ==
    {"", "perf report\n", Lines(<<HeaderLine>>), HeaderLine,
     Lines(<<"# Overheads Command", Row("31.00", "f1")>>),
     Lines(<<"## Overhead", Row("31.00", "f1")>>),
     Lines(<<"total # Overhead% x", Row("31.00", "f1")>>)}
    \cup {Lines(<<HeaderLine>> \o Rows(<<OverheadOnly(n)>>)) : n \in Overheads}
    \cup {Lines(<<HeaderLine>> \o Rows(lines)) :
             lines \in SeqsUpTo({OverheadOnly(n) : n \in LongOverheads} \cup OddLines,
                                MaxShortRows)}
    \cup {Lines(<<HeaderLine>> \o Rows(lines)) :
             lines \in {[i \in DOMAIN o |-> OverheadOnly(o[i])] :
                          o \in LongLists(LongOverheads, MaxRows)}}
    \cup {Lines(<<HeaderLine>> \o Rows(<<OverheadOnly("31"), odd, OverheadOnly("12")>>)) :
             odd \in OddLines}
    \cup {Lines(<<HeaderLine>> \o Rows(<<line>>)) : line \in WhitespaceLines}
    \cup {Lines(<<HeaderLine, Row("31.00", QuotedName)>>)}
    \cup {Lines(<<HeaderLine, line, Row("31.00", "f2")>>) : line \in WhitespaceLines}
    \cup {Lines(<<HeaderLine, "#">>
                \o Rows([i \in 1..6 |->
                           OverheadOnly(<<"12", "16", "5", "30", "10", "31">>[i])])),
          Lines(<<HeaderLine, "   ">>
                \o Rows(<<OverheadOnly("31"), "    40%  short", OverheadOnly("12"),
                          "   ", "  7.5%  shardx  libc.so  [.]  operator new  (inlined)",
                          OverheadOnly("30"), "", OverheadOnly("16")>>)),
          Lines(Rows(<<OverheadOnly("31"), OverheadOnly("12")>>))}

CpuFiles == FilesOf(CpuTexts)

\* the lines of a memory report
SummaryLine == "==1== Heap Summary:"

InUseLine == "==1==     in use at exit: 640 bytes in 10 blocks"

TotalLine(allocs, frees, bytes) ==
    "==1==   total heap usage: " \o allocs \o " allocs, " \o frees \o " frees, "
    \o bytes \o " bytes allocated"

\* kind: "definitely", "possibly", "indirectly"
LostLine(bytes, blocks, kind) ==
    "==1== " \o bytes \o " bytes in " \o blocks \o " blocks are " \o kind
    \o " lost in loss record " \o blocks \o " of 4"

AtLine == "==1==    at 0x4C2: malloc (vg_replace_malloc.c:299)"

ByLine(function) == "==1==    by 12: " \o function \o " (main.c:10)"

\* a frame with its address in hexadecimal, which the pattern of the
\* function name does not match
HexByLine(function) == "==1==    by 0x4005E2: " \o function \o " (main.c:10)"

\* a mark followed by an empty line ends the text a pattern captures
EndOfSection == <<"==1==", "">>

LostBytes == <<"64", "128", "192", "256">>

BlockCounts == <<"1", "2", "3", "4">>

\* the i-th loss record of a report, the third without a "by" line
LossRecord(i) ==
    <<LostLine(LostBytes[i], BlockCounts[i], "definitely"), AtLine>>
    \o (IF i = 3 THEN <<>> ELSE <<ByLine(FunctionNames[i])>>)

Lost(bytes, kind, function) == <<LostLine(bytes, "1", kind), ByLine(function)>>

\* the text without its last character
Unterminated(text) == SubSeq(text, 1, Len(text) - 1)

\* reports with a number that is only a separator: int('') raises
BadNumberTexts ==
    {Lines(<<SummaryLine, TotalLine(",", "7", "160")>>),
     Lines(<<SummaryLine, TotalLine("10", "7", ",,")>>)}

\* reports with thousands separators in the totals and in the records, with
\* records that are not "definitely lost" after and before the first that
\* is, without a newline at the end, with sections that end at a mark and an
\* empty line, with a frame in hexadecimal, with whitespace other than
\* blanks, and with an empty number in a record
OddMemoryTexts ==
    {Lines(<<SummaryLine, TotalLine("1,000", "700", "16,000")>>),
     Lines(Lost("1,024", "definitely", "f1") \o Lost("2,048", "definitely", "f2")),
     Lines(Lost("100", "definitely", "f1") \o Lost("64", "possibly", "f2")),
     Lines(Lost("64", "possibly", "f2") \o Lost("100", "definitely", "f1")
           \o Lost("7", "definitely", "f3")),
     Unterminated(Lines(Lost("100", "definitely", "f1")
                        \o <<LostLine("7", "1", "definitely")>>)),
     Unterminated(Lines(Lost("100", "definitely", "f1") \o Lost("7", "definitely", "f3"))),
     Lines(<<SummaryLine, InUseLine>> \o EndOfSection
           \o <<TotalLine("1000", "700", "16000")>>),
     Lines(<<SummaryLine, TotalLine("10", "7", "160")>> \o EndOfSection
           \o Lost("100", "definitely", "f1") \o Lost("64", "definitely", "f2")
           \o EndOfSection \o Lost("7", "definitely", "f3")),
     Lines(<<LostLine("100", "1", "definitely"), LostLine("64", "1", "indirectly"),
             AtLine, HexByLine("f1"), ByLine("f2")>>),
     Lines(<<LostLine("100", "1", "definitely"), LostLine("64", "1", "definitely"),
             HexByLine("f1")>>),
     Lines(<<LostLine("100", "1", "definitely"), "==1==" \o VerticalTab \o "64"
             \o NoBreakSpace \o "bytes", "==1== by" \o VerticalTab \o "7:"
             \o NoBreakSpace \o "f1" \o NoBreakSpace \o "(main.c:10)">>),
     Lines(<<LostLine("100", "1", "definitely"), "==1== , bytes", ByLine("f1"),
             "==1== 7 bytes", "==1== 9 bytes", ByLine("f2")>>)}

MemoryTexts ==
    {"", "valgrind\n", Lines(<<SummaryLine>>),
     Lines(<<TotalLine("1000", "700", "16000")>>),
     Lines(<<SummaryLine, TotalLine("0", "0", "0")>>)}
    \cup {Lines(<<"==1== Memcheck, a memory error detector", SummaryLine, InUseLine,
                  TotalLine("1000", "700", "16000")>>
                \o Flatten([i \in 1..n |-> LossRecord(i)])) :
          n \in 0..4}
    \cup BadNumberTexts \cup OddMemoryTexts

MemoryFiles == FilesOf(MemoryTexts)

Formats == {"text", "json", "html", "all"}

Types == {"transaction", "sharding", "storage", "network", "all"}

\* the thresholds of the runs that start from files, as typed
FileThresholds == {"10", "15"}

\* the output files one of which cannot be written
Unwritables ==
    {{}, {"bottleneck_analysis.txt"}, {"bottleneck_analysis.json"},
     {"bottleneck_analysis.html"}, {"transaction_throughput.png"},
     {"bottleneck_summary.png"}}

\* the files of the runs in which one file, or one argument, ranges over
\* its whole set: none at all, and a full set of reporting files
FileBackgrounds ==
    {[kind \in FileKinds |-> MissingFile],
     [transaction |-> ReadableFile(TransactionText(BackgroundSeries.series)),
      sharding |-> ReadableFile(SectionText("sharding_benchmark",
                      JObject(<<CreationMember(BackgroundSeries.series),
                                CrossShardMember(BackgroundSeries.series)>>))),
      storage |-> ReadableFile(SectionText("storage_benchmark", JObject(<<>>))),
      network |-> ReadableFile(JObject(<<>>)),
      cpu |-> ReadableFile(Lines(<<HeaderLine>>
                                 \o Rows(<<OverheadOnly("31"), OverheadOnly("12")>>))),
      memory |-> ReadableFile(
                    Lines(<<SummaryLine, TotalLine("10", "7", "160"),
                            LostLine("64", "1", "definitely"),
                            LostLine("64", "1", "definitely"), ByLine("f1")>>))]}

DefaultRun(f) ==
    [files |-> f, type |-> "all", format |-> "all", unwritable |-> {},
     threshold |-> "10"]

FileRuns ==
    UNION {LET run == DefaultRun(f)
           IN  {[run EXCEPT !.files.transaction = x] : x \in TransactionFiles}
               \cup {[run EXCEPT !.files.sharding = x] : x \in ShardingFiles}
               \cup {[run EXCEPT !.files.storage = x] : x \in OtherBenchmarkFiles}
               \cup {[run EXCEPT !.files.network = x] : x \in OtherBenchmarkFiles}
               \cup {[run EXCEPT !.files.cpu = x, !.threshold = t] :
                        x \in CpuFiles, t \in FileThresholds}
               \cup {[run EXCEPT !.files.memory = x] : x \in MemoryFiles}
               \cup {[run EXCEPT !.type = x] : x \in Types}
               \cup {[run EXCEPT !.type = x, !.files[k] = BrokenLinkFile("dangling")] :
                        x \in Types, k \in {"sharding", "storage"}}
               \cup {[run EXCEPT !.format = x, !.unwritable = u] :
                        x \in Formats, u \in Unwritables}
           : f \in FileBackgrounds}

----------------------------------------------------------------------------
(* main *)

NotRaised == [exception |-> "none", function |-> "none"]

NotCalled == [tag |-> "NotCalled"]

NoDirectory == [exists |-> FALSE, path |-> "", mtime |-> 0, parent_mtime |-> 0,
                entries |-> <<>>]

\* the input files once main has read them: they play no part afterwards
ReadFiles == [kind \in FileKinds |-> [state |-> "read"]]

\* no call of find_latest_files on its own is under way
NoSearch ==
    /\ search_directory = NoDirectory
    /\ search_pattern = ""
    /\ latest = NotCalled

\* no call of retry is under way
NoRetry ==
    /\ max_retries = 0
    /\ initial_delay = 0
    /\ retry_i = 0
    /\ fn_calls = <<>>
    /\ slept = <<>>
    /\ last_exception = None
    /\ retry_result = NotCalled

\* no call of wait_for_confirmation is under way
NoWait ==
    /\ timeout = 0
    /\ interval = 0
    /\ elapsed = 0
    /\ polls = <<>>
    /\ wait_result = NotCalled

\* "default=10.0" of --threshold
DefaultThreshold == ParseFloat("10.0").value

\* main is not running
NoRun ==
    /\ files = ReadFiles
    /\ args_type = "all"
    /\ args_format = "all"
    /\ unwritable = {}
    /\ benchmark_results = EmptyDict
    /\ cpu_profile = None
    /\ memory_profile = None
    /\ threshold = DefaultThreshold
    /\ analysis_results = EmptyDict
    /\ charts = <<>>
    /\ reports = <<>>
    /\ output = EmptyDict
    /\ raised = NotRaised

\* the run from main line 811 on, on what the parsers returned, with the
\* default --type and --format and a writable output directory
Init ==
    /\ files = ReadFiles
    /\ args_type = "all"
    /\ args_format = "all"
    /\ unwritable = {}
    /\ threshold \in Thresholds
    /\ \E in \in RunInputs :
          /\ benchmark_results = BenchmarkResults(in)
          /\ cpu_profile = in.cpu
          /\ memory_profile = in.memory
    /\ analysis_results = EmptyDict
    /\ charts = <<>>
    /\ reports = <<>>
    /\ output = EmptyDict
    /\ raised = NotRaised
    /\ pc = "analyze_transaction"
    /\ NoSearch
    /\ NoRetry
    /\ NoWait

Inputs == <<benchmark_results, cpu_profile, memory_profile, threshold>>

\* what the command line and the two directories hold
Environment == <<files, args_type, args_format, unwritable>>

\* a call of find_latest_files on its own
Search == <<search_directory, search_pattern, latest>>

\* the calls of the SDK's retry and wait_for_confirmation
RetryCall == <<max_retries, initial_delay, retry_i, fn_calls, slept, last_exception,
               retry_result>>

WaitCall == <<timeout, interval, elapsed, polls, wait_result>>

Sdk == <<RetryCall, WaitCall>>

\* what the report generation builds
Reporting == <<charts, reports, output>>

\* an exception raised in function leaves main: the run ends there
Abort(e, function) ==
    /\ raised' = [exception |-> e, function |-> function]
    /\ pc' = "aborted"
    /\ UNCHANGED analysis_results

\* lines 811-824: what an analyzer returned is stored under the key and main
\* goes on, what it raised ends the run
Analyzed(r, function, key, next) ==
    IF r.raised # "none" THEN Abort(r.raised, function)
    ELSE /\ analysis_results' = DictSet(analysis_results, key, r.value)
         /\ pc' = next
         /\ UNCHANGED raised

MainAnalyzeTransaction ==
    /\ pc = "analyze_transaction"
    /\ IF "transaction" \in DOMAIN benchmark_results
            /\ PyTruthy(benchmark_results.transaction)
       THEN Analyzed(analyze_transaction_performance(benchmark_results.transaction),
                     "analyze_transaction_performance", "transaction_analysis",
                     "analyze_sharding")
       ELSE /\ pc' = "analyze_sharding"
            /\ UNCHANGED <<analysis_results, raised>>
    /\ UNCHANGED <<Inputs, Environment, Search, Sdk, Reporting>>

MainAnalyzeSharding ==
    /\ pc = "analyze_sharding"
    /\ IF "sharding" \in DOMAIN benchmark_results
            /\ PyTruthy(benchmark_results.sharding)
       THEN Analyzed(analyze_sharding_performance(benchmark_results.sharding),
                     "analyze_sharding_performance", "sharding_analysis",
                     "identify_bottlenecks")
       ELSE /\ pc' = "identify_bottlenecks"
            /\ UNCHANGED <<analysis_results, raised>>
    /\ UNCHANGED <<Inputs, Environment, Search, Sdk, Reporting>>

MainIdentifyBottlenecks ==
    /\ pc = "identify_bottlenecks"
    /\ Analyzed(identify_bottlenecks(analysis_results, cpu_profile,
                                     memory_profile, threshold),
                "identify_bottlenecks", "bottlenecks", "generate_charts")
    /\ UNCHANGED <<Inputs, Environment, Search, Sdk, Reporting>>

Next ==
    \/ MainAnalyzeTransaction
    \/ MainAnalyzeSharding
    \/ MainIdentifyBottlenecks

Spec == Init /\ [][Next]_vars

\* the run from its start, on the files of the two input directories
MainInit ==
    /\ \E run \in FileRuns :
          /\ files = run.files
          /\ args_type = run.type
          /\ args_format = run.format
          /\ unwritable = run.unwritable
          /\ threshold = ParseFloat(run.threshold).value
    /\ benchmark_results = EmptyDict
    /\ cpu_profile = None
    /\ memory_profile = None
    /\ analysis_results = EmptyDict
    /\ charts = <<>>
    /\ reports = <<>>
    /\ output = EmptyDict
    /\ raised = NotRaised
    /\ pc = "parse_benchmarks"
    /\ NoSearch
    /\ NoRetry
    /\ NoWait

BenchmarkKinds == <<"transaction", "sharding", "storage", "network">>

\* "--benchmark-dir" holds the benchmark files, "--profile-dir" the reports
DirectoryKinds(path) ==
    IF path = "benchmark_results" THEN BenchmarkKinds ELSE <<"cpu", "memory">>

DirectoryOf(kind) ==
    IF kind \in {"cpu", "memory"} THEN "profile_results" ELSE "benchmark_results"

\* the patterns of lines 785-808 and the name under which a file of the kind
\* is listed
FilePattern(kind) ==
    CASE kind = "cpu" -> "cpu_report_*.txt"
      [] kind = "memory" -> "memory_profile_*.txt"
      [] OTHER -> kind \o "_benchmark_*.json"

FileName(kind) ==
    CASE kind = "cpu" -> "cpu_report_1.txt"
      [] kind = "memory" -> "memory_profile_1.txt"
      [] OTHER -> kind \o "_benchmark_1.json"

\* the entry under which the directory lists the file: a link that cannot
\* be followed, or a file that can be looked at
FileEntry(kind, file) ==
    IF file.state \in {"dangling", "forbidden"} THEN BrokenLink(FileName(kind), file.state)
    ELSE Entry(FileName(kind), 1, FALSE)

\* the kinds whose file the directory lists
ListedKinds(f, path) ==
    SelectSeq(DirectoryKinds(path), LAMBDA kind : f[kind].state # "missing")

\* an input directory of the run: it lists the files of its kinds that are
\* not missing
InputDirectory(f, path) ==
    [exists |-> TRUE, path |-> path, mtime |-> 2, parent_mtime |-> 1,
     entries |-> Each(ListedKinds(f, path), LAMBDA kind : FileEntry(kind, f[kind]))]

\* find_latest_files(directory of the kind, pattern of the kind) on the files
\* f: the file of the kind, None when there is none, or what the call raises
LatestMatch(f, kind) ==
    Then(find_latest_files(InputDirectory(f, DirectoryOf(kind)), FilePattern(kind)),
         LAMBDA path : Ok(IF path = None THEN None ELSE f[kind]))

\* what lines 784-802 have done when they end: raised is "none" or the
\* exception of find_latest_files, value the keys of benchmark_results bound
\* until then
Bound(e, results) == [raised |-> e, value |-> results]

\* lines 784-802 from the i-th kind on, results being the keys bound so
\* far: a key for every benchmark that --type selects and whose file was
\* found, bound to what the parser returned
RECURSIVE ParsedBenchmarks(_, _, _, _)
ParsedBenchmarks(f, type, i, results) ==
    IF i > Len(BenchmarkKinds) THEN Bound("none", results)
    ELSE IF type \notin {BenchmarkKinds[i], "all"}
    THEN ParsedBenchmarks(f, type, i + 1, results)
    ELSE Try(LatestMatch(f, BenchmarkKinds[i]),
             LAMBDA file :
                ParsedBenchmarks(f, type, i + 1,
                    IF file = None THEN results
                    ELSE DictSet(results, BenchmarkKinds[i],
                                 parse_benchmark_results(file))),
             Bound(LatestMatch(f, BenchmarkKinds[i]).raised, results))

\* main goes on after the benchmarks, or ends with the exception
BenchmarksParsed(r) ==
    /\ benchmark_results' = r.value
    /\ IF r.raised = "none"
       THEN /\ pc' = "parse_profiles"
            /\ UNCHANGED raised
       ELSE /\ raised' = [exception |-> r.raised, function |-> "find_latest_files"]
            /\ pc' = "aborted"

\* lines 781-802; main has no handler for what find_latest_files raises
MainParseBenchmarks ==
    /\ pc = "parse_benchmarks"
    /\ BenchmarksParsed(ParsedBenchmarks(files, args_type, 1, EmptyDict))
    /\ UNCHANGED <<cpu_profile, memory_profile, threshold, analysis_results,
                   Environment, Search, Sdk, Reporting>>

\* "parse(file) if file else None"
ParsedIfFound(file, parse(_)) == IF file # None THEN parse(file) ELSE None

\* lines 804-809 on what the two calls of find_latest_files gave: the CPU
\* report is parsed before the memory report is looked for
ProfilesParsed(cpu_file, memory_file) ==
    IF cpu_file.raised # "none"
    THEN /\ raised' = [exception |-> cpu_file.raised, function |-> "find_latest_files"]
         /\ pc' = "aborted"
         /\ UNCHANGED <<cpu_profile, memory_profile>>
    ELSE /\ cpu_profile' = ParsedIfFound(cpu_file.value, parse_cpu_profile)
         /\ IF memory_file.raised # "none"
            THEN /\ raised' = [exception |-> memory_file.raised,
                               function |-> "find_latest_files"]
                 /\ pc' = "aborted"
                 /\ UNCHANGED memory_profile
            ELSE /\ memory_profile' = ParsedIfFound(memory_file.value,
                                                    parse_memory_profile)
                 /\ pc' = "analyze_transaction"
                 /\ UNCHANGED raised

\* lines 804-809
MainParseProfiles ==
    /\ pc = "parse_profiles"
    /\ ProfilesParsed(LatestMatch(files, "cpu"), LatestMatch(files, "memory"))
    /\ UNCHANGED <<benchmark_results, threshold, analysis_results,
                   Environment, Search, Sdk, Reporting>>

\* the files a generator wrote, added to the output directory in order
RECURSIVE Store(_, _)
Store(directory, written) ==
    IF written = <<>> THEN directory
    ELSE Store(DictSet(directory, Head(written)[1], Head(written)[2]), Tail(written))

\* what a call of a generator leaves behind, whether it returned or raised
Leaves(r, function) ==
    /\ analysis_results' = r.analysis_results
    /\ output' = Store(output, r.written)
    /\ raised' = IF r.raised = "none" THEN raised
                 ELSE [exception |-> r.raised, function |-> function]

\* "charts = generate_charts(...)": main goes on with the charts, or the
\* run ends
Charted(r, next) ==
    /\ Leaves(r, "generate_charts")
    /\ charts' = IF r.raised = "none" THEN r.value ELSE charts
    /\ pc' = IF r.raised = "none" THEN next ELSE "aborted"

\* "report_files.append((format, <generator>(...)))": main goes on with the
\* report's path added, or the run ends
ReportWritten(r, function, format, next) ==
    /\ Leaves(r, function)
    /\ reports' = IF r.raised = "none"
                  THEN Append(reports, <<format, r.value>>) ELSE reports
    /\ pc' = IF r.raised = "none" THEN next ELSE "aborted"

\* line 826
MainGenerateCharts ==
    /\ pc = "generate_charts"
    /\ Charted(generate_charts(analysis_results, unwritable), "chart_list")
    /\ UNCHANGED <<Inputs, Environment, Search, Sdk, reports>>

\* line 827: the charts are added to the analysis by the base name of their path
MainChartList ==
    /\ pc = "chart_list"
    /\ analysis_results' =
          DictSet(analysis_results, "charts",
                  [i \in DOMAIN charts |->
                     [title |-> charts[i].title, path |-> Basename(charts[i].path),
                      description |-> charts[i].description]])
    /\ pc' = "text_report"
    /\ UNCHANGED <<Inputs, Environment, Search, Sdk, Reporting, raised>>

\* lines 832-834
MainTextReport ==
    /\ pc = "text_report"
    /\ IF args_format \in {"text", "all"}
       THEN ReportWritten(generate_text_report(analysis_results, unwritable),
                     "generate_text_report", "text", "json_report")
       ELSE /\ pc' = "json_report"
            /\ UNCHANGED <<analysis_results, output, raised, reports>>
    /\ UNCHANGED <<Inputs, Environment, Search, Sdk, charts>>

\* lines 836-838
MainJsonReport ==
    /\ pc = "json_report"
    /\ IF args_format \in {"json", "all"}
       THEN ReportWritten(generate_json_report(analysis_results, unwritable),
                     "generate_json_report", "json", "html_report")
       ELSE /\ pc' = "html_report"
            /\ UNCHANGED <<analysis_results, output, raised, reports>>
    /\ UNCHANGED <<Inputs, Environment, Search, Sdk, charts>>

\* lines 840-842
MainHtmlReport ==
    /\ pc = "html_report"
    /\ IF args_format \in {"html", "all"}
       THEN ReportWritten(generate_html_report(analysis_results, charts, unwritable),
                     "generate_html_report", "html", "print")
       ELSE /\ pc' = "print"
            /\ UNCHANGED <<analysis_results, output, raised, reports>>
    /\ UNCHANGED <<Inputs, Environment, Search, Sdk, charts>>

\* lines 844-863: the summary is printed on the standard output, which is
\* not part of the state
MainPrint ==
    /\ pc = "print"
    /\ pc' = "done"
    /\ UNCHANGED <<Inputs, Environment, Search, Sdk, Reporting, analysis_results, raised>>

MainNext ==
    \/ MainParseBenchmarks
    \/ MainParseProfiles
    \/ MainAnalyzeTransaction
    \/ MainAnalyzeSharding
    \/ MainIdentifyBottlenecks
    \/ MainGenerateCharts
    \/ MainChartList
    \/ MainTextReport
    \/ MainJsonReport
    \/ MainHtmlReport
    \/ MainPrint

MainSpec == MainInit /\ [][MainNext]_vars

----------------------------------------------------------------------------
(* find_latest_files on a directory of several entries *)

MaxEntries == 3

\* the names of the files the profile directory may list
EntryNames ==
    {"cpu_report_1.txt", "cpu_report_2.txt", "cpu_report_.txt",
     "cpu_report_1.txt.bak", "memory_profile_1.txt"}

\* cpu_report_*.txt, memory_profile_*.txt (main, lines 805 and 808),
\* cpu_report_?.txt, a pattern with a character class, one without a
\* wildcard and "**"
Patterns ==
    {"cpu_report_*.txt", "memory_profile_*.txt", "cpu_report_?.txt",
     "cpu_report_[12].txt", "cpu_report_1.txt", "**"}

\* the modification times of the CPU reports, and those of the other
\* entries, which changed later
Mtimes == {1, 2}

OtherMtimes == {3}

IsCpuReport(name) == name \in {"cpu_report_1.txt", "cpu_report_2.txt", "cpu_report_.txt"}

\* a directory of older reports, with a directory in it
ReportsDirectory ==
    Subdirectory("reports", 3,
                 <<Subdirectory("old", 1, <<>>), Entry("cpu_report_1.txt", 1, FALSE)>>)

\* the files; the directory "reports", a link to it, and a directory whose
\* name matches the patterns of the CPU reports; a link to a file, and
\* links that cannot be followed
DirectoryEntries ==
    {Entry(name, mtime, FALSE) :
        name \in {n \in EntryNames : IsCpuReport(n)}, mtime \in Mtimes}
    \cup {Entry(name, mtime, FALSE) :
             name \in {n \in EntryNames : ~IsCpuReport(n)}, mtime \in OtherMtimes}
    \cup {ReportsDirectory, LinkTo("latest", ReportsDirectory),
          Subdirectory("cpu_report_2.txt", 2, <<>>),
          LinkTo("cpu_report_.txt", Entry("cpu_report_1.txt", 2, FALSE)),
          BrokenLink("cpu_report_1.txt", "dangling"),
          BrokenLink("cpu_report_2.txt", "forbidden")}

\* the listings of a directory, in every order: no name twice
Listings ==
    {l \in SeqsUpTo(DirectoryEntries, MaxEntries) :
        \A i, j \in DOMAIN l : i # j => l[i].name # l[j].name}

Directory(exists, entries) ==
    [exists |-> exists, path |-> "profile_results", mtime |-> 2, parent_mtime |-> 1,
     entries |-> entries]

Directories == {Directory(FALSE, <<>>)} \cup {Directory(TRUE, l) : l \in Listings}

FindInit ==
    /\ search_directory \in Directories
    /\ search_pattern \in Patterns
    /\ latest = NotCalled
    /\ pc = "find_latest_files"
    /\ NoRun
    /\ NoRetry
    /\ NoWait

\* the call returned a path or None, or it raised
Found(r) ==
    /\ latest' = r.value
    /\ raised' = IF r.raised = "none" THEN raised
                 ELSE [exception |-> r.raised, function |-> "find_latest_files"]

FindLatestFiles ==
    /\ pc = "find_latest_files"
    /\ Found(find_latest_files(search_directory, search_pattern))
    /\ pc' = "done"
    /\ UNCHANGED <<search_directory, search_pattern>>
    /\ UNCHANGED <<Inputs, Environment, Reporting, analysis_results, Sdk>>

FindNext == FindLatestFiles

FindSpec == FindInit /\ [][FindNext]_vars

----------------------------------------------------------------------------
(* SDK: retry (shardx_sdk/utils.py) *)

MaxRetries == 3

\* what a call returned, or what it raised
Returned(value) == [tag |-> "return", value |-> value]

Raised(exception) == [tag |-> "raise", exception |-> exception]

\* an exception of the given class raised by the call-th call of fn; call 0
\* for an exception that fn did not raise
Exc(type, call) == [type |-> type, call |-> call]

\* classes that "except Exception" catches, and one it does not catch
\* (asyncio.CancelledError derives from BaseException)
ExceptionClasses == {"ConnectionError", "ValueError"}

BaseExceptionClasses == {"CancelledError"}

IsException(exception) == exception.type \in ExceptionClasses

\* what the call-th call of fn may do
FnOutcomes(call) ==
    {Returned(v) : v \in {"r1", "r2"}}
    \cup {Raised(Exc(t, call)) : t \in ExceptionClasses \cup BaseExceptionClasses}

\* a negative initial_delay makes every delay negative
InitialDelays == {-1, 0, 1, 3}

\* "delay = initial_delay * (2 ** i)"
Backoff(delay, i) == delay * 2 ^ i

\* "raise last_exception": raise None is a TypeError (exceptions must derive
\* from BaseException)
RaiseLast(exception) ==
    IF exception = None THEN Raised(Exc("TypeError", 0)) ELSE Raised(exception)

RetryInit ==
    /\ max_retries \in 0..MaxRetries
    /\ initial_delay \in InitialDelays
    /\ retry_i = 0
    /\ fn_calls = <<>>
    /\ slept = <<>>
    /\ last_exception = None
    /\ retry_result = NotCalled
    /\ pc = "retry_for"
    /\ NoRun
    /\ NoSearch
    /\ NoWait

NotRetry == <<Inputs, Environment, Reporting, analysis_results, raised, Search, WaitCall>>

\* "for i in range(max_retries): try: return await fn(...)": one call of fn; a
\* result is returned, an Exception is kept for the sleep that follows, any
\* other exception leaves retry
RetryAttempt ==
    /\ pc = "retry_for"
    /\ retry_i < max_retries
    /\ \E outcome \in FnOutcomes(Len(fn_calls) + 1) :
          /\ fn_calls' = Append(fn_calls, outcome)
          /\ IF outcome.tag = "return"
             THEN /\ retry_result' = outcome
                  /\ pc' = "done"
                  /\ UNCHANGED last_exception
             ELSE IF IsException(outcome.exception)
             THEN /\ last_exception' = outcome.exception
                  /\ pc' = "retry_sleep"
                  /\ UNCHANGED retry_result
             ELSE /\ retry_result' = outcome
                  /\ pc' = "done"
                  /\ UNCHANGED last_exception
    /\ UNCHANGED <<max_retries, initial_delay, retry_i, slept, NotRetry>>

\* the rest of the except block: "sleep(delay)", then the next i.
\* time.sleep raises ValueError for a negative delay; raised inside the
\* except block, it leaves retry.
RetrySleep ==
    /\ pc = "retry_sleep"
    /\ IF Backoff(initial_delay, retry_i) < 0
       THEN /\ retry_result' = Raised(Exc("ValueError", 0))
            /\ pc' = "done"
            /\ UNCHANGED <<slept, retry_i>>
       ELSE /\ slept' = Append(slept, Backoff(initial_delay, retry_i))
            /\ retry_i' = retry_i + 1
            /\ pc' = "retry_for"
            /\ UNCHANGED retry_result
    /\ UNCHANGED <<max_retries, initial_delay, fn_calls, last_exception, NotRetry>>

\* the loop is over: "raise last_exception"
RetryExhausted ==
    /\ pc = "retry_for"
    /\ retry_i >= max_retries
    /\ retry_result' = RaiseLast(last_exception)
    /\ pc' = "done"
    /\ UNCHANGED <<max_retries, initial_delay, retry_i, fn_calls, slept, last_exception,
                   NotRetry>>

RetryNext ==
    \/ RetryAttempt
    \/ RetrySleep
    \/ RetryExhausted

RetrySpec == RetryInit /\ [][RetryNext]_vars

----------------------------------------------------------------------------
(* SDK: TransactionManager.wait_for_confirmation (shardx_sdk/transaction.py) *)

MaxPolls == 3

\* timeout and interval, in seconds
Timeouts == {0, 1, 2, 3}

\* time.sleep raises ValueError for a negative interval
Intervals == {-1, 0, 1, 2}

\* the seconds a request of the client takes, and the seconds time.sleep
\* sleeps beyond what it was asked for
Latencies == {0, 1, 2}

Oversleeps == {0, 1}

\* ShardXError(message, status, code) and its subclasses TransactionError
\* and NetworkError (status 0, code "network_error")
ShardXError(type, status, code) ==
    [type |-> type, call |-> 0, status |-> status, code |-> code]

TransactionError(status, code) == ShardXError("TransactionError", status, code)

\* What ShardXClient._request does: it returns the decoded body of the
\* response, handles an HTTP error by the body of the error response, or
\* raises NetworkError.
Response(body) == Returned(body)

\* the body of an error response that is no JSON text: "e.response.json()"
\* raises and error_data stays {}
NotJson == [tag |-> "not json"]

\* the body the server sends with an error: an object with a message and a
\* code
ErrorBody(code) ==
    PyDict(<<Item("message", PyStr("failed")), Item("code", PyStr(code))>>)

\* error_data.get("code"): None without the key; a str is the code as the
\* SDK itself writes its codes
ErrorCode(error_data) ==
    IF ~HasKey(error_data, "code") THEN None
    ELSE IF Lookup(error_data, "code").tag = "str" THEN Lookup(error_data, "code").str
    ELSE Lookup(error_data, "code")

\* "except requests.exceptions.HTTPError" (lines 317-328): a body that is no
\* JSON leaves error_data = {}; a body that decodes to a value that is no
\* object has no "get" (AttributeError, raised inside the handler);
\* otherwise ShardXError with the HTTP status and the code of the body
HttpError(status, body) ==
    IF body = NotJson THEN Raised(ShardXError("ShardXError", status, None))
    ELSE IF body.tag # "dict" THEN Raised(Exc("AttributeError", 0))
    ELSE Raised(ShardXError("ShardXError", status, ErrorCode(body.dict)))

NetworkError == Raised(ShardXError("NetworkError", 0, "network_error"))

StatusBody(status) == PyDict(<<Item("status", PyStr(status))>>)

\* the answers to "GET /transactions/<id>/status": the three statuses of
\* TransactionStatus, a status that is none of them, a body without
\* "status", a body that is no object, an HTTP error that carries the code
\* of a failed transaction, HTTP errors whose body is no JSON, an object
\* without a code, a list or null, and a network error
StatusResponses ==
    {Response(StatusBody(s)) : s \in {"pending", "confirmed", "failed", "unknown"}}
    \cup {Response(PyDict(<<>>)), Response(PyList(<<>>)),
          HttpError(400, ErrorBody("transaction_failed")), HttpError(502, NotJson),
          HttpError(500, PyDict(<<>>)), HttpError(500, PyList(<<>>)),
          HttpError(500, None), NetworkError}

\* get_transaction_status: response["status"]
get_transaction_status(response) ==
    IF response.tag = "raise" THEN response
    ELSE IF response.value.tag = "dict"
    THEN (IF HasKey(response.value.dict, "status")
          THEN Returned(Lookup(response.value.dict, "status"))
          ELSE Raised(Exc("KeyError", 0)))
    ELSE Raised(Exc("TypeError", 0))

\* the Transaction that get_transaction returns: the body of the server's
\* answer at that moment
Transaction(tx_id, status) ==
    PyDict(<<Item("id", PyStr(tx_id)), Item("status", PyStr(status))>>)

\* the answers to "GET /transactions/<id>"
TransactionResponses ==
    {Response(Transaction("tx1", s)) : s \in {"pending", "confirmed", "failed"}}
    \cup {Response(PyDict(<<>>)), HttpError(404, ErrorBody("not_found")),
          HttpError(500, PyStr("error")), NetworkError}

\* a test of the loop that lets the turn at the very end of the timeout begin
TimedOut_AfterTheEnd(seconds, limit) == seconds > limit

\* "time.time() - start_time < timeout" is false
TimedOut(seconds, limit) == ~(seconds < limit)

WaitInit ==
    /\ timeout \in Timeouts
    /\ interval \in Intervals
    /\ elapsed = 0
    /\ polls = <<>>
    /\ wait_result = NotCalled
    /\ pc = "wait_while"
    /\ NoRun
    /\ NoSearch
    /\ NoRetry

NotWait == <<Inputs, Environment, Reporting, analysis_results, raised, Search, RetryCall>>

\* one turn of the loop up to the sleep: the status request, made at the
\* moment of the test of the loop, and the branches on its answer; an
\* exception of the request leaves wait_for_confirmation
WaitPoll ==
    /\ pc = "wait_while"
    /\ ~TimedOut(elapsed, timeout)
    /\ Len(polls) < MaxPolls
    /\ \E response \in StatusResponses, latency \in Latencies :
          LET status == get_transaction_status(response)
          IN  /\ polls' = Append(polls, [status |-> status, at |-> elapsed])
              /\ elapsed' = elapsed + latency
              /\ IF status.tag = "raise"
                 THEN /\ wait_result' = status
                      /\ pc' = "done"
                 ELSE IF status.value = PyStr("confirmed")
                 THEN /\ pc' = "wait_get_transaction"
                      /\ UNCHANGED wait_result
                 ELSE IF status.value = PyStr("failed")
                 THEN /\ wait_result' =
                            Raised(TransactionError(400, "transaction_failed"))
                      /\ pc' = "done"
                 ELSE /\ pc' = "wait_sleep"
                      /\ UNCHANGED wait_result
    /\ UNCHANGED <<timeout, interval, NotWait>>

\* "return self.client.get_transaction(tx_id)"
WaitGetTransaction ==
    /\ pc = "wait_get_transaction"
    /\ \E response \in TransactionResponses, latency \in Latencies :
          /\ wait_result' = response
          /\ elapsed' = elapsed + latency
    /\ pc' = "done"
    /\ UNCHANGED <<timeout, interval, polls, NotWait>>

\* "time.sleep(interval)": ValueError for a negative interval ("sleep length
\* must be non-negative"), which leaves wait_for_confirmation
WaitSleep ==
    /\ pc = "wait_sleep"
    /\ IF interval < 0
       THEN /\ wait_result' = Raised(Exc("ValueError", 0))
            /\ pc' = "done"
            /\ UNCHANGED elapsed
       ELSE /\ \E oversleep \in Oversleeps : elapsed' = elapsed + interval + oversleep
            /\ pc' = "wait_while"
            /\ UNCHANGED wait_result
    /\ UNCHANGED <<timeout, interval, polls, NotWait>>

\* the test of the loop fails: the raise after the loop
WaitTimeout ==
    /\ pc = "wait_while"
    /\ TimedOut(elapsed, timeout)
    /\ wait_result' = Raised(TransactionError(408, "transaction_timeout"))
    /\ pc' = "done"
    /\ UNCHANGED <<timeout, interval, elapsed, polls, NotWait>>

WaitNext ==
    \/ WaitPoll
    \/ WaitGetTransaction
    \/ WaitSleep
    \/ WaitTimeout

WaitSpec == WaitInit /\ [][WaitNext]_vars

----------------------------------------------------------------------------
(* What a run read and what it produced *)

\* the float a decimal literal denotes
F(text) == ParseFloat(text).value

Facets == {"transaction", "shard_creation", "cross_shard"}

BottleneckType(facet) ==
    CASE facet = "transaction" -> "transaction_scalability"
      [] facet = "shard_creation" -> "shard_creation_scalability"
      [] facet = "cross_shard" -> "cross_shard_scalability"

AnalyzerOf(facet) ==
    IF facet = "transaction" THEN "analyze_transaction_performance"
    ELSE "analyze_sharding_performance"

AnalysisKey(facet) ==
    IF facet = "transaction" THEN "transaction_analysis" ELSE "sharding_analysis"

\* the benchmark document main holds for the facet, or None
FacetDocument(facet) ==
    LET file == IF facet = "transaction" THEN "transaction" ELSE "sharding"
    IN  IF file \in DOMAIN benchmark_results THEN benchmark_results[file] ELSE None

\* the section of the benchmark document that holds the facet's series, or None
FacetSection(facet) ==
    LET section == IF facet = "transaction" THEN "transaction_benchmark"
                   ELSE "sharding_benchmark"
        document == FacetDocument(facet)
    IN  IF document.tag = "dict" /\ HasKey(document.dict, section)
        THEN Lookup(document.dict, section)
        ELSE None

SeriesKey(facet) ==
    CASE facet = "transaction" -> "throughput"
      [] facet = "shard_creation" -> "shard_creation"
      [] facet = "cross_shard" -> "cross_shard_transactions"

SizeKey(facet) == IF facet = "shard_creation" THEN "shard_count" ELSE "tx_count"

ThroughputKey(facet) ==
    IF facet = "shard_creation" THEN "throughput_sps" ELSE "throughput_tps"

\* the document holds a throughput series for the facet: a list of samples,
\* each with a size and a throughput that are numbers
HasSeries(facet) ==
    /\ FacetSection(facet).tag = "dict"
    /\ HasKey(FacetSection(facet).dict, SeriesKey(facet))
    /\ LET raw == Lookup(FacetSection(facet).dict, SeriesKey(facet))
       IN  /\ raw.tag = "list"
           /\ \A i \in DOMAIN raw.list :
                 /\ raw.list[i].tag = "dict"
                 /\ HasKey(raw.list[i].dict, SizeKey(facet))
                 /\ HasKey(raw.list[i].dict, ThroughputKey(facet))
                 /\ IsNumber(Lookup(raw.list[i].dict, SizeKey(facet)))
                 /\ IsNumber(Lookup(raw.list[i].dict, ThroughputKey(facet)))

\* the facet's throughput series as read, each sample as <<size, throughput>>
InputSeries(facet) ==
    LET raw == Lookup(FacetSection(facet).dict, SeriesKey(facet)).list
    IN  [i \in DOMAIN raw |->
           <<Lookup(raw[i].dict, SizeKey(facet)),
             Lookup(raw[i].dict, ThroughputKey(facet))>>]

\* the facet's analyzer has been called (it returned, or it raised)
Called(facet) ==
    \/ AnalysisKey(facet) \in DOMAIN analysis_results
    \/ raised.function = AnalyzerOf(facet)

\* the ThroughputAnalysis main holds for the facet, or None
FacetAnalysis(facet) ==
    IF AnalysisKey(facet) \in DOMAIN analysis_results
         /\ analysis_results[AnalysisKey(facet)] # None
    THEN CASE facet = "transaction" ->
                analysis_results.transaction_analysis.throughput_analysis
           [] facet = "shard_creation" ->
                analysis_results.sharding_analysis.creation_analysis
           [] facet = "cross_shard" ->
                analysis_results.sharding_analysis.cross_shard_analysis
    ELSE None

FacetScalability(facet) ==
    IF FacetAnalysis(facet) = None THEN <<>> ELSE FacetAnalysis(facet).scalability

\* a scalability item as <<from size, to size, from throughput, to throughput>>
ItemPair(facet, item) ==
    IF facet = "shard_creation"
    THEN <<item.shard_count_from, item.shard_count_to, item.sps_from, item.sps_to>>
    ELSE <<item.tx_count_from, item.tx_count_to, item.tps_from, item.tps_to>>

\* four ints as the numbers of a scalability item
Ints(size_from, size_to, throughput_from, throughput_to) ==
    <<PyInt(size_from), PyInt(size_to), PyInt(throughput_from), PyInt(throughput_to)>>

Identified == "bottlenecks" \in DOMAIN analysis_results

Bottlenecks == analysis_results.bottlenecks

OfType(type) == SelectSeq(Bottlenecks, LAMBDA b : b.type = type)

Count(seq, Test(_)) == Cardinality({i \in DOMAIN seq : Test(seq[i])})

\* efficiency < 1 - threshold/100, the right-hand side computed in floats
\* as written
BelowCutoff(item) ==
    FloatLess(item.efficiency,
              FloatSub(IntToFloat(1), FloatTrueDiv(threshold, IntToFloat(100)).value))

\* efficiency < 0.5
BelowHalf(item) == FloatLess(item.efficiency, F("0.5"))

\* the threshold is the number n
ThresholdIs(n) == FloatEq(threshold, IntToFloat(n))

----------------------------------------------------------------------------
(* Claims *)

\* C1: for every facet and threshold, the *_scalability bottlenecks are one
\* per scalability sample with efficiency < 1 - threshold/100, 'high' for
\* those with efficiency < 0.5 and 'medium' for the others (threshold 10:
\* 0.4 gives high, 0.85 gives medium, 0.95 gives none).
C1_ScalabilityRule ==
    Identified =>
      \A facet \in Facets :
        LET found == OfType(BottleneckType(facet))
            items == FacetScalability(facet)
        IN  /\ Count(found, LAMBDA b : b.severity = "high")
                 = Count(items, LAMBDA it : BelowCutoff(it) /\ BelowHalf(it))
            /\ Count(found, LAMBDA b : b.severity = "medium")
                 = Count(items, LAMBDA it : BelowCutoff(it) /\ ~BelowHalf(it))
            /\ Count(found, LAMBDA b : b.severity = "low") = 0
            /\ ThresholdIs(10) =>
                 \A i \in DOMAIN items :
                    /\ items[i].efficiency = F("0.4") =>
                         \E j \in DOMAIN found :
                            found[j].severity = "high"
                              /\ found[j].description.efficiency_2f = "0.40"
                    /\ items[i].efficiency = F("0.85") =>
                         \E j \in DOMAIN found :
                            found[j].severity = "medium"
                              /\ found[j].description.efficiency_2f = "0.85"
                    /\ items[i].efficiency = F("0.95") =>
                         \A j \in DOMAIN found :
                            found[j].description.efficiency_2f # "0.95"

\* a run at threshold 10 whose transaction series gave efficiencies 0.4 and
\* 2.125: the first is flagged 'high', the second is not flagged
C1_Witness ==
    /\ Identified
    /\ ThresholdIs(10)
    /\ Len(FacetScalability("transaction")) = 2
    /\ FacetScalability("transaction")[1].efficiency = F("0.4")
    /\ FacetScalability("transaction")[2].efficiency = F("2.125")
    /\ Len(OfType("transaction_scalability")) = 1
    /\ OfType("transaction_scalability")[1].severity = "high"

\* a run at threshold 10 on sizes 3, 5 and throughputs 2, 3: the quotient of
\* the floats 1.5 and 5/3 is the float next below 0.9, and the sample is
\* flagged 'medium'
C1_WitnessBelowCutoffByRounding ==
    /\ Identified
    /\ ThresholdIs(10)
    /\ Len(FacetScalability("transaction")) = 1
    /\ ItemPair("transaction", FacetScalability("transaction")[1]) = Ints(3, 5, 2, 3)
    /\ FacetScalability("transaction")[1].efficiency = F("0.8999999999999999")
    /\ Len(OfType("transaction_scalability")) = 1
    /\ OfType("transaction_scalability")[1].severity = "medium"
    /\ OfType("transaction_scalability")[1].description.efficiency_2f = "0.90"

\* C2: for every series of length n >= 2 the analyzer produces a scalability
\* sequence of exactly n-1 entries, entry i carrying the sizes and
\* throughputs of samples i and i+1 in source order.
C2_AdjacentPairs ==
    \A facet \in Facets :
      (HasSeries(facet) /\ Called(facet) /\ Len(InputSeries(facet)) >= 2) =>
        LET series == InputSeries(facet)
            items == FacetScalability(facet)
        IN  /\ FacetAnalysis(facet) # None
            /\ Len(items) = Len(series) - 1
            /\ \A i \in DOMAIN items :
                  ItemPair(facet, items[i]) =
                     <<series[i][1], series[i+1][1], series[i][2], series[i+1][2]>>

\* the pairing of C2 for the calls that returned: whenever an analysis exists
\* its scalability sequence is the n-1 adjacent pairs of the series
C2_AdjacentPairsWhenReturned ==
    \A facet \in Facets :
      (HasSeries(facet) /\ FacetAnalysis(facet) # None
         /\ Len(InputSeries(facet)) >= 2) =>
        LET series == InputSeries(facet)
            items == FacetScalability(facet)
        IN  /\ Len(items) = Len(series) - 1
            /\ \A i \in DOMAIN items :
                  ItemPair(facet, items[i]) =
                     <<series[i][1], series[i+1][1], series[i][2], series[i+1][2]>>

\* the number is 0, 0.0 or -0.0
IsZeroNumber(v) == IF v.tag = "float" THEN IsZero(v) ELSE AsInt(v) = 0

\* a sample with a zero size or a zero throughput before the last position
ZeroBeforeLast(series) ==
    \E i \in DOMAIN series :
       i < Len(series) /\ (IsZeroNumber(series[i][1]) \/ IsZeroNumber(series[i][2]))

\* C3: a series with a zero workload size or a zero throughput at a non-final
\* position is analyzed without raising; the efficiency of the pair that
\* starts there is not computed.
C3_ZeroGuarded ==
    \A facet \in Facets :
      (HasSeries(facet) /\ Called(facet) /\ ZeroBeforeLast(InputSeries(facet))) =>
        /\ raised.function # AnalyzerOf(facet)
        /\ \A i \in DOMAIN FacetScalability(facet) :
              ~IsZeroNumber(ItemPair(facet, FacetScalability(facet)[i])[1])
                /\ ~IsZeroNumber(ItemPair(facet, FacetScalability(facet)[i])[3])

\* C4: a series of 0 or 1 samples is analyzed without raising and gives an
\* analysis whose scalability sequence is empty.
C4_ShortSeries ==
    \A facet \in Facets :
      (HasSeries(facet) /\ Called(facet) /\ Len(InputSeries(facet)) <= 1) =>
        /\ raised.function # AnalyzerOf(facet)
        /\ FacetAnalysis(facet) # None
        /\ FacetAnalysis(facet).scalability = <<>>

\* the one-sample half of C4: a series of exactly one sample is analyzed
\* without raising and its scalability sequence is empty
C4_OneSample ==
    \A facet \in Facets :
      (HasSeries(facet) /\ Called(facet) /\ Len(InputSeries(facet)) = 1) =>
        /\ raised.function # AnalyzerOf(facet)
        /\ FacetAnalysis(facet) # None
        /\ FacetAnalysis(facet).scalability = <<>>

\* the heap summary holds both totals
HasHeapTotals ==
    /\ memory_profile # None
    /\ "heap_summary" \in DOMAIN memory_profile
    /\ {"total_allocs", "total_frees"} \subseteq DOMAIN memory_profile.heap_summary

LeakCount ==
    memory_profile.heap_summary.total_allocs - memory_profile.heap_summary.total_frees

\* the whole number the threshold is, for the thresholds that are one
WholeThresholds == -100..100

IsWholeThreshold == \E n \in WholeThresholds : ThresholdIs(n)

WholeThreshold == CHOOSE n \in WholeThresholds : ThresholdIs(n)

\* (total_allocs - total_frees)/total_allocs > threshold/100, both sides
\* computed in floats as written
LeakRatioAboveThreshold ==
    FloatLess(FloatTrueDiv(threshold, IntToFloat(100)).value,
              FloatTrueDiv(IntToFloat(LeakCount),
                           IntToFloat(memory_profile.heap_summary.total_allocs)).value)

\* C5: exactly one memory_leak bottleneck, 'high', if and only if the heap
\* totals exist, total_allocs - total_frees > 0 and
\* (total_allocs - total_frees)/total_allocs > threshold/100; otherwise none
\* (threshold 10: 1000/700 gives one, 1000/950 gives none).  For a threshold
\* that is a whole number the comparison of the two floats agrees with the
\* comparison of the exact quotients.
C5_MemoryLeakRule ==
    Identified =>
      LET leaks == OfType("memory_leak")
          expected == HasHeapTotals /\ LeakCount > 0 /\ LeakRatioAboveThreshold
      IN  /\ Len(leaks) = IF expected THEN 1 ELSE 0
          /\ \A i \in DOMAIN leaks :
                leaks[i].severity = "high" /\ leaks[i].description.leak_count = LeakCount
          /\ (HasHeapTotals /\ LeakCount > 0 /\ IsWholeThreshold) =>
                (Len(leaks) = 1 <=>
                   LeakCount * 100
                      > WholeThreshold * memory_profile.heap_summary.total_allocs)
          /\ (ThresholdIs(10) /\ HasHeapTotals
                /\ memory_profile.heap_summary.total_allocs = 1000) =>
                /\ memory_profile.heap_summary.total_frees = 700 => Len(leaks) = 1
                /\ memory_profile.heap_summary.total_frees = 950 => Len(leaks) = 0

\* threshold 10, 1000 allocations and 700 frees: one memory_leak is reported
C5_Witness ==
    /\ Identified
    /\ ThresholdIs(10)
    /\ HasHeapTotals
    /\ memory_profile.heap_summary.total_allocs = 1000
    /\ memory_profile.heap_summary.total_frees = 700
    /\ Len(OfType("memory_leak")) = 1
    /\ OfType("memory_leak")[1].description.percent_1f = "30.0"

CpuHotspotList ==
    IF cpu_profile # None /\ "hotspots" \in DOMAIN cpu_profile
    THEN cpu_profile.hotspots ELSE <<>>

\* overhead > n
OverheadAbove(hotspot, n) == FloatLess(IntToFloat(n), hotspot.overhead)

\* overhead > threshold
OverheadAboveThreshold(hotspot) == FloatLess(threshold, hotspot.overhead)

\* C6: each of the first 5 CPU hotspots gives a cpu_hotspot bottleneck if and
\* only if its overhead > threshold, 'high' if overhead > 30, 'medium' if
\* 15 < overhead <= 30, 'low' otherwise; a hotspot beyond the fifth gives none.
C6_CpuHotspotRule ==
    Identified =>
      LET found == OfType("cpu_hotspot")
          hotspots == CpuHotspotList
          Reported(i) == \E j \in DOMAIN found :
                            found[j].description.function = hotspots[i].function
      IN  /\ \A i \in DOMAIN hotspots :
                Reported(i) <=> (i <= 5 /\ OverheadAboveThreshold(hotspots[i]))
          /\ Len(found) = Cardinality({i \in DOMAIN hotspots : Reported(i)})
          /\ \A j \in DOMAIN found :
                \E i \in DOMAIN hotspots :
                   /\ found[j].description.function = hotspots[i].function
                   /\ found[j].severity =
                         IF OverheadAbove(hotspots[i], 30) THEN "high"
                         ELSE IF OverheadAbove(hotspots[i], 15) THEN "medium"
                         ELSE "low"

\* six hotspots, the sixth above the threshold and unreported, and a 'low'
\* one among the reported
C6_Witness ==
    /\ Identified
    /\ Len(CpuHotspotList) >= 6
    /\ OverheadAboveThreshold(CpuHotspotList[6])
    /\ Len(OfType("cpu_hotspot")) = 5
    /\ \E j \in 1..5 : OfType("cpu_hotspot")[j].severity = "low"

\* hotspots of overhead 0.35, 15.05 and 30.5 at threshold -10: 'low',
\* 'medium' and 'high', quoted as 0.3 (the float 0.35 is below 0.35), 15.1
\* and 30.5
C6_WitnessFractions ==
    /\ Identified
    /\ ThresholdIs(-10)
    /\ Len(OfType("cpu_hotspot")) = 3
    /\ [j \in 1..3 |-> OfType("cpu_hotspot")[j].severity] = <<"low", "medium", "high">>
    /\ [j \in 1..3 |-> OfType("cpu_hotspot")[j].description.overhead_1f]
          = <<"0.3", "15.1", "30.5">>

MemoryHotspotList ==
    IF memory_profile # None /\ "memory_hotspots" \in DOMAIN memory_profile
    THEN memory_profile.memory_hotspots ELSE <<>>

\* C7: the first 5 memory hotspots give one memory_hotspot bottleneck each,
\* 'medium', whatever the threshold and bytes_lost; their number is
\* min(5, number of memory hotspots).
C7_MemoryHotspotRule ==
    Identified =>
      LET found == OfType("memory_hotspot")
          hotspots == MemoryHotspotList
      IN  /\ Len(found) = IF Len(hotspots) < 5 THEN Len(hotspots) ELSE 5
          /\ \A i \in DOMAIN found :
                /\ found[i].severity = "medium"
                /\ found[i].description.function = hotspots[i].function
                /\ found[i].description.bytes_lost = hotspots[i].bytes_lost

\* six memory hotspots give five bottlenecks, at a threshold above which no
\* other rule of the run fires
C7_Witness ==
    /\ Identified
    /\ Len(MemoryHotspotList) = 6
    /\ Len(OfType("memory_hotspot")) = 5
    /\ Len(Bottlenecks) = 5

TypeRank(type) ==
    CASE type = "transaction_scalability" -> 1
      [] type = "shard_creation_scalability" -> 2
      [] type = "cross_shard_scalability" -> 3
      [] type = "cpu_hotspot" -> 4
      [] type = "memory_leak" -> 5
      [] type = "memory_hotspot" -> 6

\* the position of a hotspot of the drawn profiles, from its function name
Position(function) == CHOOSE k \in DOMAIN FunctionNames : FunctionNames[k] = function

\* what the description of a scalability bottleneck quotes of its sample
Quoted(facet, item) ==
    <<ItemPair(facet, item)[1], ItemPair(facet, item)[2],
      FormatFixed(item.efficiency, 2)>>

\* C8: in the returned sequence the types come in the order transaction,
\* shard creation, cross-shard, cpu_hotspot, memory_leak, memory_hotspot, and
\* the entries of one type keep the order of their samples or hotspots.
C8_DetectionOrder ==
    Identified =>
      /\ \A i, j \in DOMAIN Bottlenecks :
            i < j => TypeRank(Bottlenecks[i].type) <= TypeRank(Bottlenecks[j].type)
      /\ \A type \in {"cpu_hotspot", "memory_hotspot"} :
            \A i, j \in DOMAIN OfType(type) :
               i < j => Position(OfType(type)[i].description.function)
                          < Position(OfType(type)[j].description.function)
      /\ \A facet \in Facets :
            LET found == OfType(BottleneckType(facet))
                low == SelectSeq(FacetScalability(facet), BelowCutoff)
            IN  /\ Len(found) = Len(low)
                /\ \A i \in DOMAIN found :
                      <<found[i].description.size_from, found[i].description.size_to,
                        found[i].description.efficiency_2f>> = Quoted(facet, low[i])

\* a run that reports all six types, two of them with two entries
C8_Witness ==
    /\ Identified
    /\ \A type \in {"transaction_scalability", "shard_creation_scalability",
                    "cross_shard_scalability", "cpu_hotspot", "memory_leak",
                    "memory_hotspot"} : Len(OfType(type)) >= 1
    /\ Len(OfType("cpu_hotspot")) >= 2
    /\ Len(OfType("transaction_scalability")) >= 2
    /\ OfType("transaction_scalability")[1].description
          # OfType("transaction_scalability")[2].description

\* the analyses main builds from the benchmark files of a background
BackgroundAnalysis(b) ==
    [k \in (IF b.transaction.file /\ PyTruthy(b.transaction.doc)
            THEN {"transaction_analysis"} ELSE {})
           \cup (IF b.sharding.file /\ PyTruthy(b.sharding.doc)
                 THEN {"sharding_analysis"} ELSE {}) |->
        IF k = "transaction_analysis"
        THEN analyze_transaction_performance(b.transaction.doc).value
        ELSE analyze_sharding_performance(b.sharding.doc).value]

\* runs to compare with: every source as in a background
OtherRuns ==
    {[results |-> BackgroundAnalysis(b), cpu |-> b.cpu, memory |-> b.memory] :
        b \in Backgrounds}

\* d with key bound as in source (or unbound, when source does not bind it)
KeyFrom(d, key, source) ==
    IF key \in DOMAIN source THEN DictSet(d, key, source[key])
    ELSE [k \in (DOMAIN d) \ {key} |-> d[k]]

Projection(seq, types) == SelectSeq(seq, LAMBDA b : b.type \in types)

Detect(run) == identify_bottlenecks(run.results, run.cpu, run.memory, threshold)

\* the runs that agree with this one on the source, and differ as r does
\* on the others
SameTransaction(r) ==
    [r EXCEPT !.results = KeyFrom(r.results, "transaction_analysis", analysis_results)]

SameSharding(r) ==
    [r EXCEPT !.results = KeyFrom(r.results, "sharding_analysis", analysis_results)]

SameCpu(r) == [r EXCEPT !.cpu = cpu_profile]

SameMemory(r) == [r EXCEPT !.memory = memory_profile]

\* the other sub-analysis of the sharding analysis replaced
OtherSubAnalyses ==
    {None, analyze_transaction_performance(
              Doc("transaction_benchmark",
                  Doc("throughput", TxSeries(BackgroundSeries.series)))
           ).value.throughput_analysis}

OtherCreationAnalyses ==
    {None, analyze_sharding_performance(
              Doc("sharding_benchmark", ShardingData(BackgroundSeries, NoSeries))
           ).value.creation_analysis}

\* C9: no rule suppresses another: two calls with the same threshold that
\* agree on the data of one source return the same subsequence of
\* bottlenecks of that source's type, whatever the other sources hold.
C9_NoSuppression ==
    Identified =>
      /\ \A r \in OtherRuns :
           /\ Detect(SameTransaction(r)).raised = "none"
           /\ Projection(Detect(SameTransaction(r)).value, {"transaction_scalability"})
                = OfType("transaction_scalability")
           /\ Projection(Detect(SameSharding(r)).value,
                         {"shard_creation_scalability", "cross_shard_scalability"})
                = Projection(Bottlenecks,
                         {"shard_creation_scalability", "cross_shard_scalability"})
           /\ Projection(Detect(SameCpu(r)).value, {"cpu_hotspot"})
                = OfType("cpu_hotspot")
           /\ Projection(Detect(SameMemory(r)).value, {"memory_leak", "memory_hotspot"})
                = Projection(Bottlenecks, {"memory_leak", "memory_hotspot"})
      /\ ("sharding_analysis" \in DOMAIN analysis_results
            /\ analysis_results.sharding_analysis # None) =>
           /\ \A other \in OtherSubAnalyses :
                 Projection(
                    identify_bottlenecks(
                       [analysis_results EXCEPT
                           !.sharding_analysis.cross_shard_analysis = other],
                       cpu_profile, memory_profile, threshold).value,
                    {"shard_creation_scalability"})
                 = OfType("shard_creation_scalability")
           /\ \A other \in OtherCreationAnalyses :
                 Projection(
                    identify_bottlenecks(
                       [analysis_results EXCEPT
                           !.sharding_analysis.creation_analysis = other],
                       cpu_profile, memory_profile, threshold).value,
                    {"cross_shard_scalability"})
                 = OfType("cross_shard_scalability")

\* a run that reports CPU hotspots next to scalability, leak and memory
\* hotspot bottlenecks, so that every rule had something to suppress
C9_Witness ==
    /\ Identified
    /\ Len(OfType("cpu_hotspot")) >= 3
    /\ Len(OfType("transaction_scalability")) >= 1
    /\ Len(OfType("cross_shard_scalability")) >= 1
    /\ Len(OfType("memory_leak")) = 1
    /\ Len(OfType("memory_hotspot")) >= 1

\* no bottleneck of a type whose source data is absent
NoneFromAbsent ==
    /\ \A facet \in Facets :
          FacetAnalysis(facet) = None => OfType(BottleneckType(facet)) = <<>>
    /\ cpu_profile = None => OfType("cpu_hotspot") = <<>>
    /\ (memory_profile = None \/ memory_profile.heap_summary = EmptyDict)
          => OfType("memory_leak") = <<>>
    /\ memory_profile = None => OfType("memory_hotspot") = <<>>
    /\ (cpu_profile = None /\ memory_profile = None) =>
          \A i \in DOMAIN Bottlenecks :
             Bottlenecks[i].type \in {BottleneckType(facet) : facet \in Facets}

\* C10: whatever inputs are absent (a facet key missing or None, a
\* sub-analysis None, no CPU profile, no memory profile or an empty heap
\* summary), identify_bottlenecks returns, and returns no bottleneck of a type
\* whose source is absent; with both profiles missing only *_scalability ones.
C10_AbsentInputs ==
    [][pc = "identify_bottlenecks" =>
         (pc' = "generate_charts" /\ raised' = NotRaised /\ Identified'
            /\ NoneFromAbsent')]_vars

\* both profiles and the sharding file missing, and the transaction facet
\* reported
C10_Witness ==
    /\ Identified
    /\ cpu_profile = None
    /\ memory_profile = None
    /\ "sharding_analysis" \notin DOMAIN analysis_results
    /\ Len(Bottlenecks) >= 1

\* the transaction analysis is None (the document {"tag": "None"} has no
\* transaction section), a sub-analysis of the sharding analysis is None, and
\* the detector has returned
C10_WitnessNoneAnalysis ==
    /\ Identified
    /\ "transaction_analysis" \in DOMAIN analysis_results
    /\ analysis_results.transaction_analysis = None
    /\ benchmark_results.transaction = TagDoc

\* efficiency > 1.0
SuperLinear(item) == FloatLess(IntToFloat(1), item.efficiency)

\* the bottleneck quotes the sizes and the efficiency of the sample
Describes(facet, b, item) ==
    <<b.description.size_from, b.description.size_to, b.description.efficiency_2f>>
       = Quoted(facet, item)

\* C11: at every threshold the caller can pass, a scalability sample whose
\* efficiency is above 1.0 gives no *_scalability bottleneck.
C11_SuperLinearNeverFlagged ==
    Identified =>
      \A facet \in Facets :
        \A i \in DOMAIN FacetScalability(facet) :
           SuperLinear(FacetScalability(facet)[i]) =>
              \A j \in DOMAIN OfType(BottleneckType(facet)) :
                 ~Describes(facet, OfType(BottleneckType(facet))[j],
                            FacetScalability(facet)[i])

\* the same at the thresholds that are not negative: there the cutoff
\* 1 - threshold/100 is at most 1.0
C11_SuperLinearAtNonNegativeThreshold ==
    (Identified /\ ~FloatLess(threshold, IntToFloat(0))) =>
      \A facet \in Facets :
        \A i \in DOMAIN FacetScalability(facet) :
           SuperLinear(FacetScalability(facet)[i]) =>
              \A j \in DOMAIN OfType(BottleneckType(facet)) :
                 ~Describes(facet, OfType(BottleneckType(facet))[j],
                            FacetScalability(facet)[i])

\* the heap summary counts no allocation (and a number of frees that is not
\* negative)
ZeroAllocs ==
    /\ HasHeapTotals
    /\ memory_profile.heap_summary.total_allocs = 0
    /\ memory_profile.heap_summary.total_frees >= 0

\* C12: with total_allocs = 0 the call of identify_bottlenecks returns (the
\* division by total_allocs is not evaluated, so no ZeroDivisionError) and
\* the list it returns holds no memory_leak bottleneck.
C12_ZeroAllocsNoDivision ==
    [][(pc = "identify_bottlenecks" /\ ZeroAllocs) =>
          (raised' = NotRaised /\ Identified' /\ OfType("memory_leak")' = <<>>)]_vars

\* a run with 0 allocations and 5 frees, at the threshold at which every
\* computed ratio that is not negative exceeds threshold/100
C12_Witness ==
    /\ Identified
    /\ ZeroAllocs
    /\ memory_profile.heap_summary.total_frees = 5
    /\ FloatLess(threshold, IntToFloat(0))
    /\ OfType("memory_leak") = <<>>

\* a / b, the float nearest to the quotient of two numbers
Quotient(a, b) == FloatTrueDiv(ToFloat(a), ToFloat(b)).value

\* the four numbers are whole: ints, not floats
AllInts(pair) == \A k \in 1..4 : pair[k].tag = "int"

\* C13: every scalability sample's efficiency is
\* (throughput_to/throughput_from) / (size_to/size_from), each quotient the
\* nearest float; it is 1.0 exactly when throughput_to/throughput_from =
\* size_to/size_from (sizes 100 to 200 with throughputs 50 to 100 give 1.0).
C13_EfficiencyFormula ==
    \A facet \in Facets :
      \A i \in DOMAIN FacetScalability(facet) :
        LET item == FacetScalability(facet)[i]
            pair == ItemPair(facet, item)
            size_from == pair[1]
            size_to == pair[2]
            throughput_from == pair[3]
            throughput_to == pair[4]
            throughput_ratio == Quotient(throughput_to, throughput_from)
            size_ratio == Quotient(size_to, size_from)
        IN  /\ ~IsZeroNumber(size_from) /\ ~IsZeroNumber(size_to)
            /\ ~IsZeroNumber(throughput_from)
            /\ item.efficiency = FloatTrueDiv(throughput_ratio, size_ratio).value
            /\ (item.efficiency = IntToFloat(1)) <=> FloatEq(throughput_ratio, size_ratio)
            /\ AllInts(pair) =>
                 ((item.efficiency = IntToFloat(1))
                    <=> (throughput_to.int * size_from.int
                           = size_to.int * throughput_from.int))
            /\ pair = Ints(100, 200, 50, 100) => item.efficiency = IntToFloat(1)

\* the transaction series of sizes 100, 200 and throughputs 50, 100 analyzed:
\* one sample, of efficiency 1.0
C13_Witness ==
    /\ Len(FacetScalability("transaction")) = 1
    /\ ItemPair("transaction", FacetScalability("transaction")[1])
          = Ints(100, 200, 50, 100)
    /\ FacetScalability("transaction")[1].efficiency = IntToFloat(1)

\* the transaction series of sizes 100, 200 and the float throughputs 1.5,
\* 2.25 analyzed: one sample, of efficiency 0.75
C13_WitnessFloatThroughput ==
    /\ Len(FacetScalability("transaction")) = 1
    /\ ItemPair("transaction", FacetScalability("transaction")[1])
          = <<PyInt(100), PyInt(200), F("1.5"), F("2.25")>>
    /\ FacetScalability("transaction")[1].efficiency = F("0.75")

\* the text of the CPU report the run read
CpuText == files.cpu.content

\* the positions of the report at which a line ends with the word
LinesEndingWith(word) ==
    {i \in 1..(Len(CpuText) - Len(word) - 1) :
        SubSeq(CpuText, i, i + Len(word) + 1) = " " \o word \o "\n"}

\* the run read a CPU report and the detector has returned
CpuReportDetected ==
    /\ files.cpu.state = "readable"
    /\ cpu_profile # None
    /\ Identified

\* the positions among the first five hotspots whose overhead exceeds the threshold
HotAmongFirstFive ==
    {i \in DOMAIN cpu_profile.hotspots :
        i <= 5 /\ FloatLess(threshold, cpu_profile.hotspots[i].overhead)}

\* C14: the parsed hotspots stand in the order of their lines in the report
\* (compared on the functions that end exactly one line), and the
\* cpu_hotspot bottlenecks are exactly the hotspots among the first five of
\* that order whose overhead exceeds the threshold, in that order; a hotspot
\* at position 6 or later is never reported, whatever its overhead.
C14_FirstFiveInFileOrder ==
    CpuReportDetected =>
      LET hs == cpu_profile.hotspots
          reported == OfType("cpu_hotspot")
      IN  /\ \A i, j \in DOMAIN hs :
                (i < j /\ Cardinality(LinesEndingWith(hs[i].function)) = 1
                       /\ Cardinality(LinesEndingWith(hs[j].function)) = 1)
                  => \A a \in LinesEndingWith(hs[i].function) :
                        \A b \in LinesEndingWith(hs[j].function) : a < b
          /\ Len(reported) = Cardinality(HotAmongFirstFive)
          /\ \A k \in DOMAIN reported :
                \E i \in HotAmongFirstFive :
                   /\ Cardinality({j \in HotAmongFirstFive : j < i}) = k - 1
                   /\ reported[k].description.function = hs[i].function
          /\ \A i \in DOMAIN hs :
                i >= 6 => \A k \in DOMAIN reported :
                            reported[k].description.function # hs[i].function

\* the report whose rows carry 12, 16, 5, 30, 10 and 31 percent: the sixth
\* hotspot exceeds the threshold and each of the first five, and is not reported
C14_Witness ==
    /\ CpuReportDetected
    /\ Len(cpu_profile.hotspots) = 6
    /\ FloatLess(threshold, cpu_profile.hotspots[6].overhead)
    /\ \A i \in 1..5 :
          FloatLess(cpu_profile.hotspots[i].overhead, cpu_profile.hotspots[6].overhead)
    /\ cpu_profile.hotspots[6].function = "f6"
    /\ LinesEndingWith("f6") # {}
    /\ OfType("cpu_hotspot") # <<>>
    /\ \A k \in DOMAIN OfType("cpu_hotspot") :
          OfType("cpu_hotspot")[k].description.function # "f6"

\* the run reads the transaction series (100,1000), (200,1500), (400,2000)
\* at threshold 10 and has no CPU and no memory profile
EndToEndExample ==
    /\ ThresholdIs(10)
    /\ cpu_profile = None
    /\ memory_profile = None
    /\ HasSeries("transaction")
    /\ InputSeries("transaction")
          = <<Sample(100, 1000), Sample(200, 1500), Sample(400, 2000)>>

\* C15: on that run the analysis holds the efficiencies 0.75 and
\* 0.6666666666666666 (the floats nearest to 3/4 and 2/3) and the detector
\* returns exactly two transaction_scalability bottlenecks, both 'medium',
\* with the same recommendation (and descriptions quoting 0.75 and 0.67); no
\* step of the run raises.
C15_EndToEnd ==
    EndToEndExample =>
      /\ raised = NotRaised
      /\ pc # "analyze_transaction" =>
           /\ Len(FacetScalability("transaction")) = 2
           /\ FacetScalability("transaction")[1].efficiency = F("0.75")
           /\ FacetScalability("transaction")[2].efficiency = F("0.6666666666666666")
      /\ pc \notin {"analyze_transaction", "analyze_sharding", "identify_bottlenecks"} =>
           /\ Identified
           /\ Len(Bottlenecks) = 2
           /\ Len(OfType("transaction_scalability")) = 2
           /\ \A i \in 1..2 : OfType("transaction_scalability")[i].severity = "medium"
           /\ OfType("transaction_scalability")[1].recommendation
                 = OfType("transaction_scalability")[2].recommendation
           /\ OfType("transaction_scalability")[1].description.efficiency_2f = "0.75"
           /\ OfType("transaction_scalability")[2].description.efficiency_2f = "0.67"

\* the example run after identify_bottlenecks has returned its two entries
C15_Witness ==
    /\ EndToEndExample
    /\ Identified
    /\ Len(Bottlenecks) = 2
    /\ Bottlenecks[2].type = "transaction_scalability"

\* the report files that --format asks for
ReportName(format) == "bottleneck_analysis." \o (IF format = "text" THEN "txt" ELSE format)

RequestedReports ==
    {ReportName(format) : format \in IF args_format = "all" THEN {"text", "json", "html"}
                                      ELSE {args_format}}

\* C16: with an output directory that can be written, whatever the input
\* files hold (present, absent, malformed, an empty series, a zero value, a
\* null section) and whatever the format, no step of main raises and the
\* finished run has written every requested report.
C16_RunAlwaysCompletes ==
    unwritable = {} =>
      /\ raised = NotRaised
      /\ pc # "aborted"
      /\ pc = "done" => RequestedReports \subseteq DOMAIN output

ReportGenerators ==
    {"generate_text_report", "generate_json_report", "generate_html_report"}

\* C17: when writing one requested report fails, every other requested
\* report of the run is written all the same.
C17_SiblingReportsWritten ==
    raised.function \in ReportGenerators =>
      (RequestedReports \ unwritable) \subseteq DOMAIN output

\* a file that the directory lists and that cannot be read: one the process
\* may not open, or a link whose target does not exist or lies in a directory
\* the process may not search
CannotBeRead(file) == file.state \in {"unreadable", "dangling", "forbidden"}

\* a benchmark file that exists and cannot be read, or whose text is not JSON
Undecodable(file) ==
    \/ CannotBeRead(file)
    \/ file.state = "readable" /\ file.content \in BrokenTexts

\* a memory report that exists and cannot be read, or one of whose totals is
\* a number without a digit
UnparsedMemory(file) ==
    \/ CannotBeRead(file)
    \/ file.state = "readable" /\ file.content \in BadNumberTexts

\* the bottleneck types drawn from an input file
TypesFrom(kind) ==
    CASE kind = "transaction" -> {"transaction_scalability"}
      [] kind = "sharding" -> {"shard_creation_scalability", "cross_shard_scalability"}
      [] kind = "cpu" -> {"cpu_hotspot"}
      [] kind = "memory" -> {"memory_leak", "memory_hotspot"}
      [] OTHER -> {}

NoneFrom(kind) ==
    Identified => \A i \in DOMAIN Bottlenecks : Bottlenecks[i].type \notin TypesFrom(kind)

\* the functions of main that look for the input files and parse them
LoaderFunctions ==
    {"find_latest_files", "parse_benchmark_results", "parse_cpu_profile",
     "parse_memory_profile"}

\* main looks for the file of the kind
Searched(kind) == kind \in {"cpu", "memory"} \/ args_type \in {kind, "all"}

\* main looks for the file of the kind and finds a link it cannot follow
SearchFails(kind) == Searched(kind) /\ files[kind].state \in {"dangling", "forbidden"}

\* what os.path.getmtime raises for the file of the kind
SearchError(kind) ==
    IF files[kind].state = "dangling" THEN "FileNotFoundError" ELSE "PermissionError"

BenchmarkSearchFails ==
    \E kind \in {"transaction", "sharding", "storage", "network"} : SearchFails(kind)

\* main has passed line 806 with a CPU report found: parse_cpu_profile was
\* called
CpuReportParsed ==
    /\ pc \notin {"parse_benchmarks", "parse_profiles"}
    /\ ~BenchmarkSearchFails
    /\ ~SearchFails("cpu")

\* C18: an input file that exists and cannot be read or decoded is treated
\* as absent and never aborts the run.  A benchmark file that cannot be read
\* or whose text is not JSON is parsed to None, and so is a profile that
\* cannot be read or whose totals cannot be converted; the run goes on
\* without it: the analyzer of that file is not called, the analysis holds no
\* entry for it, no bottleneck is drawn from it, and neither looking for the
\* input files nor parsing them ends the run.
C18_UndecodableIsAbsent ==
    /\ \A kind \in {"transaction", "sharding", "storage", "network"} :
          (Undecodable(files[kind]) /\ pc # "parse_benchmarks") =>
             /\ kind \in DOMAIN benchmark_results => benchmark_results[kind] = None
             /\ args_type \in {kind, "all"} => kind \in DOMAIN benchmark_results
             /\ (kind \o "_analysis") \notin DOMAIN analysis_results
             /\ raised.function # "analyze_" \o kind \o "_performance"
             /\ NoneFrom(kind)
    /\ (CannotBeRead(files.cpu) /\ pc \notin {"parse_benchmarks", "parse_profiles"}) =>
          cpu_profile = None /\ NoneFrom("cpu")
    /\ (UnparsedMemory(files.memory)
           /\ pc \notin {"parse_benchmarks", "parse_profiles"}) =>
          memory_profile = None /\ NoneFrom("memory")
    /\ raised.function \notin LoaderFunctions

JsonReport == "bottleneck_analysis.json"

\* the keys of a decoded object, and the value under one of them
KeysOf(v) == {v.dict[i].key : i \in DOMAIN v.dict}

Get(v, key) == Lookup(v.dict, key)

MinKey(facet) == IF facet = "shard_creation" THEN "min_sps" ELSE "min_tps"

MaxKey(facet) == IF facet = "shard_creation" THEN "max_sps" ELSE "max_tps"

AvgKey(facet) == IF facet = "shard_creation" THEN "avg_sps" ELSE "avg_tps"

ItemKeys(facet) ==
    IF facet = "shard_creation"
    THEN {"shard_count_from", "shard_count_to", "sps_from", "sps_to", "efficiency"}
    ELSE {"tx_count_from", "tx_count_to", "tps_from", "tps_to", "efficiency"}

\* the decoded value d is the facet's throughput analysis a: the samples,
\* the scalability entries and min, max and avg, each float bit for bit
SameThroughput(d, a, facet) ==
    IF a = None THEN d = None
    ELSE /\ d.tag = "dict"
         /\ KeysOf(d) = {"data", "scalability", MinKey(facet), MaxKey(facet), AvgKey(facet)}
         /\ Get(d, "data") = a.data
         /\ Get(d, MinKey(facet)) = a[MinKey(facet)]
         /\ Get(d, MaxKey(facet)) = a[MaxKey(facet)]
         /\ Get(d, AvgKey(facet)) = a[AvgKey(facet)]
         /\ Get(d, "scalability").tag = "list"
         /\ Len(Get(d, "scalability").list) = Len(a.scalability)
         /\ \A i \in DOMAIN a.scalability :
               LET item == Get(d, "scalability").list[i]
               IN  /\ item.tag = "dict"
                   /\ KeysOf(item) = ItemKeys(facet)
                   /\ \A k \in ItemKeys(facet) : Get(item, k) = a.scalability[i][k]

\* the decoded list d holds the records of the list l, each a dict of strs
\* under the given keys; the sentence of a bottleneck is the str built from
\* its values
SameRecords(d, l, keys, sentences) ==
    /\ d.tag = "list"
    /\ Len(d.list) = Len(l)
    /\ \A i \in DOMAIN l :
          /\ d.list[i].tag = "dict"
          /\ KeysOf(d.list[i]) = keys \cup sentences
          /\ \A k \in keys : Get(d.list[i], k) = PyStr(l[i][k])
          /\ \A k \in sentences : Get(d.list[i], k) = PyMessage(l[i][k])

\* the decoded document d, its timestamp left aside, is the analysis a
SameAnalysis(d, a) ==
    /\ d.tag = "dict"
    /\ KeysOf(d) \ {"timestamp"} = DOMAIN a
    /\ "transaction_analysis" \in DOMAIN a =>
          IF a.transaction_analysis = None THEN Get(d, "transaction_analysis") = None
          ELSE /\ Get(d, "transaction_analysis").tag = "dict"
               /\ KeysOf(Get(d, "transaction_analysis")) = {"throughput_analysis"}
               /\ SameThroughput(Get(Get(d, "transaction_analysis"), "throughput_analysis"),
                                 a.transaction_analysis.throughput_analysis,
                                 "transaction")
    /\ "sharding_analysis" \in DOMAIN a =>
          IF a.sharding_analysis = None THEN Get(d, "sharding_analysis") = None
          ELSE /\ Get(d, "sharding_analysis").tag = "dict"
               /\ KeysOf(Get(d, "sharding_analysis"))
                     = {"creation_analysis", "cross_shard_analysis"}
               /\ SameThroughput(Get(Get(d, "sharding_analysis"), "creation_analysis"),
                                 a.sharding_analysis.creation_analysis, "shard_creation")
               /\ SameThroughput(Get(Get(d, "sharding_analysis"), "cross_shard_analysis"),
                                 a.sharding_analysis.cross_shard_analysis, "cross_shard")
    /\ "bottlenecks" \in DOMAIN a =>
          SameRecords(Get(d, "bottlenecks"), a.bottlenecks,
                      {"type", "severity", "recommendation"}, {"description"})
    /\ "charts" \in DOMAIN a =>
          SameRecords(Get(d, "charts"), a.charts, {"title", "path", "description"}, {})

\* C19: the text that generate_json_report writes decodes to a document that
\* holds a timestamp and, the timestamp removed, equals the analysis passed
\* to the generator field by field: the samples, the scalability entries,
\* min, max and avg, the bottlenecks and the charts, floats compared bit for
\* bit.
C19_JsonRoundTrip ==
    [][(pc = "json_report" /\ JsonReport \in DOMAIN output') =>
          \A doc \in {json_load(output'[JsonReport])} :
              /\ doc.raised = "none"
              /\ doc.value.tag = "dict"
              /\ "timestamp" \in KeysOf(doc.value)
              /\ "timestamp" \notin DOMAIN analysis_results
              /\ SameAnalysis(doc.value, analysis_results)]_vars

\* the tokens of the JSON report hold the token t
InJsonReport(t) ==
    /\ JsonReport \in DOMAIN output
    /\ \E i \in DOMAIN output[JsonReport] : output[JsonReport][i] = t

\* a JSON report of an analysis with a transaction sample of efficiency
\* 0.6666666666666666, a bottleneck and a chart has been written: the
\* efficiency is written with its sixteen digits and decodes to the float
C19_Witness ==
    /\ JsonReport \in DOMAIN output
    /\ Len(FacetScalability("transaction")) = 2
    /\ FacetScalability("transaction")[2].efficiency = F("0.6666666666666666")
    /\ Bottlenecks # <<>>
    /\ analysis_results.charts # <<>>
    /\ InJsonReport(NumberTok("0.6666666666666666"))
    /\ InJsonReport(NumberTok("1500.0"))
    /\ Get(Get(Get(Get(json_load(output[JsonReport]).value, "transaction_analysis"),
                   "throughput_analysis"), "scalability").list[2], "efficiency")
          = F("0.6666666666666666")

\* a JSON report with the hotspot of a function whose name holds an e with
\* an accent and a backslash: the name is written with \u00e9 and two
\* backslashes and decodes to the name
C19_WitnessEscapes ==
    /\ JsonReport \in DOMAIN output
    /\ \E i \in DOMAIN Bottlenecks :
          /\ Bottlenecks[i].type = "cpu_hotspot"
          /\ Bottlenecks[i].description.function = "café\\bar"
          /\ InJsonReport(MessageTok([Bottlenecks[i].description
                                   EXCEPT !.function = "caf\\u00e9\\\\bar"]))
          /\ Get(Get(json_load(output[JsonReport]).value, "bottlenecks").list[i],
                 "description") = PyMessage(Bottlenecks[i].description)

\* a JSON report of throughputs 1e22 and 2.5e-7: they, their mean and the
\* efficiency are written with an exponent
C19_WitnessExponent ==
    /\ JsonReport \in DOMAIN output
    /\ InJsonReport(NumberTok("1e+22"))
    /\ InJsonReport(NumberTok("2.5e-07"))
    /\ InJsonReport(NumberTok("5e+21"))
    /\ InJsonReport(NumberTok("1.25e-29"))
    /\ Len(FacetScalability("transaction")) = 1
    /\ FacetScalability("transaction")[1].efficiency = F("1.25e-29")

Renderers == {"generate_charts", "text_report", "json_report", "html_report"}

\* C20: a step of generate_charts, generate_text_report, generate_json_report
\* or generate_html_report leaves the analysis as it was, whether it returns
\* or raises (the timestamp of the JSON report is not added to it); so each
\* report of a finished run is the rendering of one and the same analysis,
\* whichever renderers ran before it.
C20_RenderersLeaveAnalysis ==
    [][/\ pc \in Renderers => analysis_results' = analysis_results
       /\ pc' = "done" =>
             /\ "timestamp" \notin DOMAIN analysis_results'
             /\ "bottleneck_analysis.txt" \in DOMAIN output' =>
                   output'["bottleneck_analysis.txt"] = TextReport(analysis_results')
             /\ JsonReport \in DOMAIN output' =>
                   output'[JsonReport] = json_dump(JsonReportData(analysis_results'))
             /\ "bottleneck_analysis.html" \in DOMAIN output' =>
                   output'["bottleneck_analysis.html"]
                      = HtmlReport(analysis_results', charts')]_vars

\* a finished run that drew charts and wrote the three reports of an analysis
\* with bottlenecks
C20_Witness ==
    /\ pc = "done"
    /\ args_format = "all"
    /\ Bottlenecks # <<>>
    /\ charts # <<>>
    /\ "bottleneck_summary.png" \in DOMAIN output
    /\ RequestedReports \subseteq DOMAIN output
    /\ "timestamp" \notin DOMAIN analysis_results
    /\ "timestamp" \in KeysOf(json_load(output[JsonReport]).value)

\* generate_charts has returned and main holds its list
ChartsDrawn == "charts" \in DOMAIN analysis_results

\* what was plotted on the i-th chart of the list
PlotOf(i) == output[Basename(charts[i].path)]

ThroughputCharts ==
    {"transaction_throughput", "shard_creation_performance", "cross_shard_performance"}

SummaryChart == "bottleneck_summary"

\* the charts of the list that plot neither a throughput nor the summary
EfficiencyCharts ==
    {i \in DOMAIN charts : charts[i].title \notin ThroughputCharts \cup {SummaryChart}}

\* the facet has throughput data in the analysis
HasData(facet) == FacetAnalysis(facet) # None /\ PyTruthy(FacetAnalysis(facet).data)

\* the sizes and the throughputs of the facet's samples
FacetSizes(facet) ==
    [i \in DOMAIN FacetAnalysis(facet).data.list |->
        Get(FacetAnalysis(facet).data.list[i], SizeKey(facet))]

FacetThroughputs(facet) ==
    [i \in DOMAIN FacetAnalysis(facet).data.list |->
        Get(FacetAnalysis(facet).data.list[i], ThroughputKey(facet))]

\* a chart of the facet's throughput by workload size is in the list
HasThroughputChart(facet) ==
    \E i \in DOMAIN charts :
       /\ charts[i].title \in ThroughputCharts
       /\ PlotOf(i).x = FacetSizes(facet)
       /\ PlotOf(i).y = FacetThroughputs(facet)

\* a chart of the facet's efficiency by pair of workload sizes is in the list
HasEfficiencyChart(facet) ==
    \E i \in EfficiencyCharts :
       /\ PlotOf(i).x = [k \in DOMAIN FacetScalability(facet) |->
                           <<ItemPair(facet, FacetScalability(facet)[k])[1],
                             ItemPair(facet, FacetScalability(facet)[k])[2]>>]
       /\ PlotOf(i).y = [k \in DOMAIN FacetScalability(facet) |->
                           FacetScalability(facet)[k].efficiency]

\* C21: once the charts are drawn, every facet with throughput data has a
\* chart of throughput by workload size and, when its scalability list holds
\* a sample, a chart of efficiency by pair of workload sizes.
C21_ChartsPerFacet ==
    ChartsDrawn =>
      \A facet \in Facets :
         HasData(facet) =>
            /\ HasThroughputChart(facet)
            /\ FacetScalability(facet) # <<>> => HasEfficiencyChart(facet)

SummaryCharts == {i \in DOMAIN charts : charts[i].title = SummaryChart}

\* the chart counts every type of the bottleneck list once, by the number of
\* bottlenecks of the type
CountsByType(plot) ==
    /\ Len(plot.x) = Len(plot.y)
    /\ \A j, k \in DOMAIN plot.x : plot.x[j] = plot.x[k] => j = k
    /\ {plot.x[k] : k \in DOMAIN plot.x} = {Bottlenecks[j].type : j \in DOMAIN Bottlenecks}
    /\ \A k \in DOMAIN plot.x : plot.y[k] = Len(OfType(plot.x[k]))

\* C22: once the charts are drawn the list holds exactly one chart of the
\* bottleneck counts by type, each count being the number of bottlenecks of
\* the type; the chart is there when the bottleneck list is empty too.
C22_SummaryChartAlways ==
    ChartsDrawn =>
      /\ Cardinality(SummaryCharts) = 1
      /\ \A i \in SummaryCharts : CountsByType(PlotOf(i))

HtmlFile == "bottleneck_analysis.html"

\* the analysis holds no throughput analysis of the facet: its key is
\* missing, its analysis is None or its sub-analysis is None
Absent(facet) == FacetAnalysis(facet) = None

ChartsOf(facet) ==
    CASE facet = "transaction" -> {"transaction_throughput", "transaction_scalability"}
      [] facet = "shard_creation" -> {"shard_creation_performance"}
      [] facet = "cross_shard" -> {"cross_shard_performance"}

\* the number of lines of the HTML report written from the given text
HtmlLines(tag) ==
    Cardinality({i \in DOMAIN output[HtmlFile] : output[HtmlFile][i].text = tag})

\* the headings under which the HTML report shows a facet
HeadingsOf(facet) ==
    CASE facet = "transaction" -> {"transaction_heading", "scalability_heading"}
      [] facet = "shard_creation" -> {"creation_heading"}
      [] facet = "cross_shard" -> {"cross_shard_heading"}

\* neither generator raises when every output file can be written, and no
\* chart is drawn for an absent facet or for an empty bottleneck list
ChartsTolerateAbsence ==
    /\ unwritable = {} =>
          raised.function \notin {"generate_charts", "generate_html_report"}
    /\ ChartsDrawn =>
          /\ \A facet \in Facets :
                Absent(facet) =>
                   \A i \in DOMAIN charts : charts[i].title \notin ChartsOf(facet)
          /\ Bottlenecks = <<>> => SummaryCharts = {}

\* C23: generate_charts and generate_html_report do not raise whichever
\* facets are absent (missing key, None analysis, None sub-analysis, empty
\* bottleneck list), no chart is drawn for an absent facet, and the HTML
\* report has no heading and no line for one: none for the transaction facet,
\* none for shard creation, none for cross-shard transactions, no sharding
\* section when both sharding facets are absent, no details when the
\* bottleneck list is empty.
C23_AbsentFacetsOmitted ==
    /\ ChartsTolerateAbsence
    /\ HtmlFile \in DOMAIN output =>
          /\ \A facet \in Facets :
                Absent(facet) => \A tag \in HeadingsOf(facet) : HtmlLines(tag) = 0
          /\ Absent("shard_creation") /\ Absent("cross_shard")
                => HtmlLines("sharding_heading") = 0
          /\ HtmlLines("min_throughput")
                = Cardinality({facet \in Facets : ~Absent(facet)})
          /\ Bottlenecks = <<>> =>
                HtmlLines("details_heading") = 0 /\ HtmlLines("bottleneck") = 0

\* the benchmark file the facet's section is read from, and the section's key
FacetFile(facet) == IF facet = "transaction" THEN "transaction" ELSE "sharding"

SectionKey(facet) ==
    IF facet = "transaction" THEN "transaction_benchmark" ELSE "sharding_benchmark"

SubAnalysisKey(facet) ==
    CASE facet = "transaction" -> "throughput_analysis"
      [] facet = "shard_creation" -> "creation_analysis"
      [] facet = "cross_shard" -> "cross_shard_analysis"

\* the facet's document was parsed to a non-empty object
HasDocument(facet) ==
    /\ FacetFile(facet) \in DOMAIN benchmark_results
    /\ benchmark_results[FacetFile(facet)].tag = "dict"
    /\ benchmark_results[FacetFile(facet)].dict # <<>>

\* the document holds no section for the facet
NoSection(facet) ==
    HasDocument(facet) /\ SectionKey(facet) \notin KeysOf(benchmark_results[FacetFile(facet)])

\* the document holds the facet's section, an object without the facet's series
NoSeriesInSection(facet) ==
    /\ HasDocument(facet)
    /\ SectionKey(facet) \in KeysOf(benchmark_results[FacetFile(facet)])
    /\ Get(benchmark_results[FacetFile(facet)], SectionKey(facet)).tag = "dict"
    /\ SeriesKey(facet) \notin
           KeysOf(Get(benchmark_results[FacetFile(facet)], SectionKey(facet)))

\* the sharding document with a well-formed series put in the place of the
\* facet's missing one
Completed(facet) ==
    LET doc == benchmark_results.sharding
        series == IF facet = "shard_creation"
                  THEN ShardSeries(BackgroundSeries.series)
                  ELSE TxSeries(BackgroundSeries.series)
    IN  PyDict(DictPut(doc.dict, "sharding_benchmark",
                       PyDict(DictPut(Get(doc, "sharding_benchmark").dict,
                                      SeriesKey(facet), series))))

OtherShardingFacet(facet) ==
    IF facet = "shard_creation" THEN "cross_shard" ELSE "shard_creation"

\* C24: a benchmark document that lacks an optional substructure yields an
\* absent analysis for that facet and leaves the rest as it is.  With no section
\* for the facet the analyzer returns None; with a transaction section that has
\* no 'throughput' series it returns {'throughput_analysis': None}; with a
\* sharding section that has no 'shard_creation' (no 'cross_shard_transactions')
\* series it does exactly what it does on the same document with that series
\* present: it raises the same exception if the analysis of the other series
\* raises, and otherwise returns None for the missing series and, for the other
\* one, the same analysis (None when that series is missing as well).
C24_MissingSubstructureIsAbsent ==
    \A facet \in Facets :
        /\ (NoSection(facet) /\ Called(facet)) =>
              /\ raised.function # AnalyzerOf(facet)
              /\ AnalysisKey(facet) \in DOMAIN analysis_results
              /\ analysis_results[AnalysisKey(facet)] = None
        /\ (NoSeriesInSection(facet) /\ Called(facet) /\ facet = "transaction") =>
              /\ raised.function # AnalyzerOf(facet)
              /\ "transaction_analysis" \in DOMAIN analysis_results
              /\ analysis_results.transaction_analysis = [throughput_analysis |-> None]
        /\ (NoSeriesInSection(facet) /\ Called(facet) /\ facet # "transaction") =>
              LET r == analyze_sharding_performance(Completed(facet))
                  other == SubAnalysisKey(OtherShardingFacet(facet))
              IN  IF r.raised # "none"
                  THEN raised = [exception |-> r.raised,
                                 function |-> "analyze_sharding_performance"]
                  ELSE /\ raised.function # "analyze_sharding_performance"
                       /\ "sharding_analysis" \in DOMAIN analysis_results
                       /\ analysis_results.sharding_analysis # None
                       /\ DOMAIN analysis_results.sharding_analysis =
                              {"creation_analysis", "cross_shard_analysis"}
                       /\ analysis_results.sharding_analysis[SubAnalysisKey(facet)] = None
                       /\ analysis_results.sharding_analysis[other] = r.value[other]

\* a sharding document without the shard_creation series whose cross-shard
\* series of two samples was analyzed
C24_Witness ==
    /\ NoSeriesInSection("shard_creation")
    /\ HasSeries("cross_shard")
    /\ "sharding_analysis" \in DOMAIN analysis_results
    /\ analysis_results.sharding_analysis # None
    /\ analysis_results.sharding_analysis.creation_analysis = None
    /\ analysis_results.sharding_analysis.cross_shard_analysis # None
    /\ Len(analysis_results.sharding_analysis.cross_shard_analysis.scalability) = 1

\* the first position of the pattern that holds one of the characters, or 0
FirstOf(pattern, chars) ==
    LET found == {k \in 1..Len(pattern) : Char(pattern, k) \in chars}
    IN  IF found = {} THEN 0 ELSE CHOOSE k \in found : \A j \in found : k <= j

\* The name matches a pattern of one wildcard at most: without a wildcard it
\* is the pattern; else it begins with what stands before the wildcard and
\* ends with what stands after it, and between the two stand any number of
\* characters ('*'), one character ('?') or one of the characters listed
\* between the brackets ('[...]').
Matches(name, pattern) ==
    LET k == FirstOf(pattern, {"*", "?", "["})
        close == IF Char(pattern, k) = "[" THEN FirstOf(pattern, {"]"}) ELSE k
        before == SubSeq(pattern, 1, k - 1)
        after == SubSeq(pattern, close + 1, Len(pattern))
        between == Len(name) - Len(before) - Len(after)
    IN  IF k = 0 THEN name = pattern
        ELSE /\ between >= 0
             /\ SubSeq(name, 1, Len(before)) = before
             /\ SubSeq(name, Len(name) - Len(after) + 1, Len(name)) = after
             /\ Char(pattern, k) = "?" => between = 1
             /\ Char(pattern, k) = "[" =>
                   /\ between = 1
                   /\ \E c \in (k + 1)..(close - 1) :
                         Char(pattern, c) = Char(name, Len(before) + 1)

\* a link that cannot be followed: its target is gone, or lies in a
\* directory the process may not search
IsBrokenLink(entry) == entry.link \in {"dangling", "forbidden"}

\* the entries of the searched directory whose name matches the searched
\* pattern, and those of them that are files, directories or links to one
NameMatches ==
    {i \in DOMAIN search_directory.entries :
        Matches(search_directory.entries[i].name, search_pattern)}

Matching == {i \in NameMatches : ~IsBrokenLink(search_directory.entries[i])}

\* C25: for a pattern of one component find_latest_files returns a file that
\* matches the pattern and whose modification time is at least that of every
\* other matching file; it returns None, without failing, when no file
\* matches, also in an empty directory and in one that does not exist; and
\* it leaves the directory as it found it.
C25_LatestMatch ==
    [][(FindLatestFiles /\ search_pattern # "**") =>
          /\ search_directory' = search_directory
          /\ raised' = NotRaised
          /\ output' = output
          /\ IF Matching = {} THEN latest' = None
             ELSE \E i \in Matching :
                    /\ latest' = [parent |-> search_directory.path,
                                  name |-> search_directory.entries[i].name]
                    /\ \A j \in Matching :
                          search_directory.entries[i].mtime >=
                              search_directory.entries[j].mtime]_vars

\* the lines of the overhead table of the CPU report that was read: the
\* lines after the header line, up to the first empty line
TableLines == SectionLines(CpuText)

\* the whitespace-separated fields of a line
Fields(line) ==
    IF StripWhitespace(line) = "" THEN <<>>
    ELSE SplitWhitespace(StripWhitespace(line), Len(line))

\* the line parses cleanly: at least 5 fields, the first a number once its
\* '%' are stripped
ParsesCleanly(line) ==
    /\ Len(Fields(line)) >= 5
    /\ ParseFloat(Strip(Fields(line)[1], "%")).raised = "none"

\* the lines that parse cleanly, in the order of the file
CleanLines == SelectSeq(TableLines, ParsesCleanly)

\* text ends with the word
EndsWith(text, word) ==
    Len(word) <= Len(text) /\ SubSeq(text, Len(text) - Len(word) + 1, Len(text)) = word

\* C26: the CPU parser is best-effort.  Whatever lines the overhead table
\* holds, the parser returns (it does not raise, and it does not give up the
\* file); the lines that do not parse cleanly leave no hotspot; and each line
\* that parses cleanly gives one hotspot, with the overhead of that line alone
\* and, as function, the end of that line from its sixth field on (its fifth
\* field when it has five), in the order of the lines.
C26_BestEffortRows ==
    (files.cpu.state = "readable" /\ CpuReportParsed) =>
        /\ raised.function # "parse_cpu_profile"
        /\ cpu_profile # None
        /\ IsOverheadHeader(CpuText) =>
              LET clean == CleanLines
              IN  /\ Len(cpu_profile.hotspots) = Len(clean)
                  /\ \A k \in DOMAIN cpu_profile.hotspots :
                        LET fields == Fields(clean[k])
                            function == cpu_profile.hotspots[k].function
                        IN  /\ cpu_profile.hotspots[k].overhead =
                                   ParseFloat(Strip(fields[1], "%")).value
                            /\ EndsWith(StripWhitespace(clean[k]), function)
                            /\ Len(Fields(function)) = IF Len(fields) = 5 THEN 1
                                                        ELSE Len(fields) - 5
                            /\ Fields(function)[1] =
                                  fields[IF Len(fields) = 5 THEN 5 ELSE 6]

\* a table in which a line that does not parse, neither blank nor a comment,
\* stands before a row that does: the row's hotspot was returned
C26_Witness ==
    /\ files.cpu.state = "readable"
    /\ IsOverheadHeader(CpuText)
    /\ pc \notin {"parse_benchmarks", "parse_profiles"}
    /\ cpu_profile # None
    /\ cpu_profile.hotspots # <<>>
    /\ \E i, j \in DOMAIN TableLines :
          /\ i < j
          /\ ~ParsesCleanly(TableLines[i])
          /\ Fields(TableLines[i]) # <<>>
          /\ Char(TableLines[i], 1) # "#"
          /\ ParsesCleanly(TableLines[j])

\* a row of seven fields gave a hotspot whose function holds the last two
C26_WitnessLongRow ==
    /\ files.cpu.state = "readable"
    /\ cpu_profile # None
    /\ \E k \in DOMAIN cpu_profile.hotspots :
          cpu_profile.hotspots[k].function = "new  (inlined)"

\* the calls of fn that failed: they raised an Exception
FailedCalls == {k \in DOMAIN fn_calls : fn_calls[k].tag = "raise"
                                          /\ IsException(fn_calls[k].exception)}

\* the sleeps that follow the failed attempts made so far: initial_delay * 2^i
\* after the i-th, i from 0 (the sleep after the last one may be still to come)
BackoffSleeps ==
    /\ Len(slept) = Cardinality(FailedCalls) - (IF pc = "retry_sleep" THEN 1 ELSE 0)
    /\ \A k \in DOMAIN slept : slept[k] = initial_delay * 2 ^ (k - 1)

\* fn is called at most max_retries times and never again after a call that
\* returned; what retry returns is what that call returned
FirstSuccess ==
    /\ Len(fn_calls) <= max_retries
    /\ \A k \in DOMAIN fn_calls : fn_calls[k].tag = "return" => k = Len(fn_calls)
    /\ retry_result.tag = "return" =>
          /\ fn_calls # <<>>
          /\ retry_result = fn_calls[Len(fn_calls)]

\* every attempt was made and every one failed
AllAttemptsFailed ==
    /\ pc = "done"
    /\ Cardinality(FailedCalls) = max_retries

\* C27: retry calls fn at most max_retries times, returns the result of the
\* first call that succeeds without calling fn again, waits
\* initial_delay * 2^i after the i-th failed attempt, and when every attempt
\* fails raises the last exception raised by fn, for every max_retries >= 0.
C27_RetryContract ==
    /\ FirstSuccess
    /\ BackoffSleeps
    /\ AllAttemptsFailed =>
          /\ retry_result.tag = "raise"
          /\ fn_calls # <<>>
          /\ retry_result.exception = fn_calls[Len(fn_calls)].exception

\* the poll observed the status
Observed(poll, status) == poll.status = Returned(PyStr(status))

\* the poll ended the wait: it observed 'confirmed' or 'failed', or its
\* request raised
Ended(poll) ==
    \/ Observed(poll, "confirmed")
    \/ Observed(poll, "failed")
    \/ poll.status.tag = "raise"

\* time.sleep(interval) raised: the interval is negative and the poll before
\* it ended nothing
SleepRaised ==
    /\ interval < 0
    /\ polls # <<>>
    /\ ~Ended(polls[Len(polls)])
    /\ wait_result = Raised(Exc("ValueError", 0))

    /\ Observed(polls[1], "pending")
    /\ Observed(polls[Len(polls)], "confirmed")
    /\ elapsed > timeout

\* the call timed out after polls that observed 'pending' only
C28_WitnessTimeout ==
    /\ wait_result = Raised(TransactionError(408, "transaction_timeout"))
    /\ Len(polls) >= 2
    /\ \A k \in DOMAIN polls : Observed(polls[k], "pending")

\* the server answered the status request with the error of a failed
\* transaction: the call raised the client's ShardXError
C28_WitnessRequestRaised ==
    /\ Len(polls) >= 2
    /\ wait_result = HttpError(400, ErrorBody("transaction_failed"))
    /\ wait_result = Raised(ShardXError("ShardXError", 400, "transaction_failed"))
    /\ wait_result # Raised(TransactionError(400, "transaction_failed"))

\* the interval is negative: the sleep after a poll that observed 'pending'
\* raised ValueError, before the timeout had elapsed
C28_WitnessNegativeInterval ==
    /\ pc = "done"
    /\ SleepRaised
    /\ Len(polls) = 1
    /\ Observed(polls[1], "pending")
    /\ elapsed < timeout

\* the error response of a status request held a list: the handler of the
\* HTTP error raised AttributeError
C28_WitnessErrorBody ==
    /\ pc = "done"
    /\ polls # <<>>
    /\ wait_result = Raised(Exc("AttributeError", 0))

\* a is b with some of its entries left out
RECURSIVE IsSubsequence(_, _)
IsSubsequence(a, b) ==
    IF a = <<>> THEN TRUE
    ELSE IF b = <<>> THEN FALSE
    ELSE IF Head(a) = Head(b) THEN IsSubsequence(Tail(a), Tail(b))
    ELSE IsSubsequence(a, Tail(b))

\* the thresholds the run's threshold is compared with
ComparedThresholds == {IntToFloat(n) : n \in {-10, 0, 10, 12, 15, 30, 50, 70, 90}}

\* a <= b on floats
FloatAtMost(a, b) == FloatLess(a, b) \/ FloatEq(a, b)

\* what identify_bottlenecks returns at threshold t for the analysis and the
\* profiles of the run
DetectedAt(t) ==
    identify_bottlenecks([k \in DOMAIN analysis_results \ {"bottlenecks"} |->
                             analysis_results[k]],
                         cpu_profile, memory_profile, t)

MemoryHotspotEntries(bottlenecks) ==
    SelectSeq(bottlenecks, LAMBDA b : b.type = "memory_hotspot")

\* C29: detection is monotone in the threshold.  For the analysis and the
\* profiles of the run, the bottlenecks at a higher threshold are those at a
\* lower one with some entries left out, each entry that remains unchanged
\* (type, severity, description), and the memory_hotspot entries are the same
\* at both; identify_bottlenecks raises at one threshold only if it raises the
\* same at the other.
C29_MonotoneInThreshold ==
    (Identified \/ raised.function = "identify_bottlenecks") =>
        \A t \in ComparedThresholds :
            LET other == DetectedAt(t)
            IN  IF raised.function = "identify_bottlenecks"
                THEN other.raised = raised.exception
                ELSE /\ other.raised = "none"
                     /\ FloatAtMost(threshold, t) => IsSubsequence(other.value, Bottlenecks)
                     /\ FloatAtMost(t, threshold) => IsSubsequence(Bottlenecks, other.value)
                     /\ MemoryHotspotEntries(other.value) = MemoryHotspotEntries(Bottlenecks)

\* a run at threshold 10 that reports a scalability, a CPU, a memory-leak
\* and a memory-hotspot bottleneck, of which threshold 30 leaves fewer but not
\* none besides the memory hotspots
C29_Witness ==
    /\ Identified
    /\ ThresholdIs(10)
    /\ OfType("cpu_hotspot") # <<>>
    /\ OfType("memory_hotspot") # <<>>
    /\ OfType("transaction_scalability") # <<>>
    /\ Len(DetectedAt(IntToFloat(30)).value) < Len(Bottlenecks)
    /\ Len(DetectedAt(IntToFloat(30)).value) > Len(OfType("memory_hotspot"))

\* a run at threshold 70 whose sample of efficiency 0.3 lies below the
\* cutoff 0.30000000000000004 and is reported, and is not at threshold 90
C29_WitnessRoundedCutoff ==
    /\ Identified
    /\ ThresholdIs(70)
    /\ \E i \in DOMAIN FacetScalability("transaction") :
          FacetScalability("transaction")[i].efficiency = F("0.3")
    /\ OfType("transaction_scalability") # <<>>
    /\ Len(DetectedAt(IntToFloat(90)).value) < Len(Bottlenecks)

\* main, lines 781-827, as one function of what it reads: the analysis, the
\* charts and the exception that main's analysis stages leave behind for the
\* input files f, --type type, --threshold t and an output directory in which
\* the files cannot_write cannot be written
RunAnalysis(f, type, t, cannot_write) ==
    LET parsed == ParsedBenchmarks(f, type, 1, EmptyDict)
        docs == parsed.value
        cpu_file == LatestMatch(f, "cpu")
        memory_file == LatestMatch(f, "memory")
        cpu == ParsedIfFound(cpu_file.value, parse_cpu_profile)
        memory == ParsedIfFound(memory_file.value, parse_memory_profile)
        Stopped(results, e, function) ==
            [analysis_results |-> results, charts |-> <<>>,
             raised |-> [exception |-> e, function |-> function]]
        has_tx == "transaction" \in DOMAIN docs /\ PyTruthy(docs.transaction)
        tx == IF has_tx THEN analyze_transaction_performance(docs.transaction)
              ELSE Ok(None)
        a1 == IF has_tx THEN DictSet(EmptyDict, "transaction_analysis", tx.value)
              ELSE EmptyDict
        has_sh == "sharding" \in DOMAIN docs /\ PyTruthy(docs.sharding)
        sh == IF has_sh THEN analyze_sharding_performance(docs.sharding) ELSE Ok(None)
        a2 == IF has_sh THEN DictSet(a1, "sharding_analysis", sh.value) ELSE a1
        found == identify_bottlenecks(a2, cpu, memory, t)
        a3 == DictSet(a2, "bottlenecks", found.value)
        drawn == generate_charts(a3, cannot_write)
    IN  IF parsed.raised # "none"
        THEN Stopped(EmptyDict, parsed.raised, "find_latest_files")
        ELSE IF cpu_file.raised # "none"
        THEN Stopped(EmptyDict, cpu_file.raised, "find_latest_files")
        ELSE IF memory_file.raised # "none"
        THEN Stopped(EmptyDict, memory_file.raised, "find_latest_files")
        ELSE IF tx.raised # "none"
        THEN Stopped(EmptyDict, tx.raised, "analyze_transaction_performance")
        ELSE IF sh.raised # "none"
        THEN Stopped(a1, sh.raised, "analyze_sharding_performance")
        ELSE IF found.raised # "none"
        THEN Stopped(a2, found.raised, "identify_bottlenecks")
        ELSE IF drawn.raised # "none"
        THEN Stopped(drawn.analysis_results, drawn.raised, "generate_charts")
        ELSE [analysis_results |->
                  DictSet(drawn.analysis_results, "charts",
                          [i \in DOMAIN drawn.value |->
                              [title |-> drawn.value[i].title,
                               path |-> Basename(drawn.value[i].path),
                               description |-> drawn.value[i].description]]),
              charts |-> drawn.value,
              raised |-> NotRaised]

\* the input files without the storage and the network benchmark
WithoutOtherBenchmarks ==
    [files EXCEPT !.storage = MissingFile, !.network = MissingFile]

\* the input files without any benchmark
WithoutBenchmarks ==
    [WithoutOtherBenchmarks EXCEPT !.transaction = MissingFile, !.sharding = MissingFile]

\* the exception, if any, that ended the run in one of main's analysis stages
AnalysisRaised ==
    IF raised.function \in {"find_latest_files", "analyze_transaction_performance",
                            "analyze_sharding_performance", "identify_bottlenecks",
                            "generate_charts"}
    THEN raised ELSE NotRaised

\* C30: storage and network benchmark files never influence the result.  The
\* analysis (the bottlenecks in it) and the chart list of a finished run are
\* those of the run on the same files without the storage and the network
\* benchmark; with --type storage or --type network they are those of the run
\* of --type all with no benchmark file at all; and with --type transaction
\* there is no shard_creation_scalability and no cross_shard_scalability
\* bottleneck.
C30_OtherBenchmarksIgnored ==
    pc \in {"done", "aborted"} =>
        /\ LET without == RunAnalysis(WithoutOtherBenchmarks, args_type, threshold,
                                      unwritable)
           IN  /\ analysis_results = without.analysis_results
               /\ charts = without.charts
               /\ AnalysisRaised = without.raised
        /\ args_type \in {"storage", "network"} =>
              LET none == RunAnalysis(WithoutBenchmarks, "all", threshold, unwritable)
              IN  /\ analysis_results = none.analysis_results
                  /\ charts = none.charts
        /\ (args_type = "transaction" /\ Identified) =>
              /\ OfType("shard_creation_scalability") = <<>>
              /\ OfType("cross_shard_scalability") = <<>>
----------------------------------------------------------------------------
(* What the code does where a statement of the specification fails *)

\* C16: with a writable output directory only the two analyzers raise, or
\* find_latest_files on a link it cannot follow, and a run that is not
\* aborted writes every requested report
C16_AbortsOnlyInAnalyzers ==
    unwritable = {} =>
      /\ raised.function \in {"none", "find_latest_files",
                               "analyze_transaction_performance",
                               "analyze_sharding_performance"}
      /\ raised.function = "find_latest_files" => \E kind \in FileKinds : SearchFails(kind)
      /\ pc = "done" => RequestedReports \subseteq DOMAIN output

\* C18: the parsers never raise, and a file that can be looked at and
\* cannot be opened or decoded is parsed to None and leaves nothing in the
\* analysis; a link that cannot be followed ends the run in
\* find_latest_files, with the exception of os.path.getmtime, when main
\* looks for the file
C18_AbsentUnlessLinkBroken ==
    /\ \A kind \in {"transaction", "sharding", "storage", "network"} :
          (Undecodable(files[kind]) /\ files[kind].state \notin {"dangling", "forbidden"}
              /\ pc # "parse_benchmarks" /\ raised.function # "find_latest_files") =>
             /\ kind \in DOMAIN benchmark_results => benchmark_results[kind] = None
             /\ args_type \in {kind, "all"} => kind \in DOMAIN benchmark_results
             /\ (kind \o "_analysis") \notin DOMAIN analysis_results
             /\ raised.function # "analyze_" \o kind \o "_performance"
             /\ NoneFrom(kind)
    /\ (files.cpu.state = "unreadable" /\ CpuReportParsed) =>
          cpu_profile = None /\ NoneFrom("cpu")
    /\ (UnparsedMemory(files.memory)
           /\ files.memory.state \notin {"dangling", "forbidden"}
           /\ CpuReportParsed) =>
          memory_profile = None /\ NoneFrom("memory")
    /\ raised.function \notin {"parse_benchmark_results", "parse_cpu_profile",
                                "parse_memory_profile"}
    /\ \A kind \in FileKinds :
          (SearchFails(kind)
              /\ pc \notin {"parse_benchmarks"}
                         \cup (IF kind \in {"cpu", "memory"} THEN {"parse_profiles"} ELSE {})) =>
             /\ pc = "aborted"
             /\ raised.function = "find_latest_files"
             /\ \E k \in FileKinds : SearchFails(k) /\ raised.exception = SearchError(k)
             /\ analysis_results = EmptyDict
             /\ output = EmptyDict
    /\ raised.function = "find_latest_files" => \E kind \in FileKinds : SearchFails(kind)

\* C17: a generator that cannot write ends the run; the reports requested
\* before it in the order text, JSON, HTML are the ones written
C17_EarlierReportsOnly ==
    raised.function \in ReportGenerators =>
      /\ pc = "aborted"
      /\ raised.exception = "OSError"
      /\ \A format \in {"text", "json", "html"} :
            ReportName(format) \in DOMAIN output
              <=> /\ ReportName(format) \in RequestedReports
                  /\ \/ format = "text" /\ raised.function # "generate_text_report"
                     \/ format = "json" /\ raised.function = "generate_html_report"

\* C21: one throughput chart per facet with data; the efficiency chart is
\* drawn for the transaction facet alone
C21_EfficiencyChartForTransactionsOnly ==
    ChartsDrawn =>
      /\ \A facet \in Facets : HasData(facet) => HasThroughputChart(facet)
      /\ Cardinality({i \in DOMAIN charts : charts[i].title \in ThroughputCharts})
            = Cardinality({facet \in Facets : HasData(facet)})
      /\ (HasData("transaction") /\ FacetScalability("transaction") # <<>>)
            => HasEfficiencyChart("transaction")
      /\ Cardinality(EfficiencyCharts)
            = IF HasData("transaction") /\ FacetScalability("transaction") # <<>>
              THEN 1 ELSE 0

\* C22: one summary chart exactly when the bottleneck list is not empty, with
\* the count of each type
C22_SummaryChartWhenNonEmpty ==
    ChartsDrawn =>
      /\ Cardinality(SummaryCharts) = IF Bottlenecks = <<>> THEN 0 ELSE 1
      /\ \A i \in SummaryCharts : CountsByType(PlotOf(i))

\* C23: for an absent facet nothing but the heading of the enclosing section
\* is written
C23_AbsentFacetsHaveNoContent ==
    /\ ChartsTolerateAbsence
    /\ HtmlFile \in DOMAIN output =>
          /\ Absent("transaction") => HtmlLines("scalability_heading") = 0
          /\ Absent("shard_creation") => HtmlLines("creation_heading") = 0
          /\ Absent("cross_shard") => HtmlLines("cross_shard_heading") = 0
          /\ HtmlLines("min_throughput")
                = Cardinality({facet \in Facets : ~Absent(facet)})
          /\ Bottlenecks = <<>> =>
                HtmlLines("details_heading") = 0 /\ HtmlLines("bottleneck") = 0
          /\ HtmlLines("transaction_heading") =
                IF "transaction_analysis" \in DOMAIN analysis_results
                     /\ Truthy(analysis_results.transaction_analysis)
                THEN 1 ELSE 0
          /\ HtmlLines("sharding_heading") =
                IF "sharding_analysis" \in DOMAIN analysis_results
                     /\ Truthy(analysis_results.sharding_analysis)
                THEN 1 ELSE 0

\* C27: the contract of retry for max_retries >= 1 and a delay that is not
\* negative, the ValueError of the first sleep for a negative delay, and the
\* TypeError for max_retries = 0
C27_RetryWithAttempts ==
    /\ FirstSuccess
    /\ initial_delay >= 0 => BackoffSleeps
    /\ (AllAttemptsFailed /\ max_retries >= 1 /\ initial_delay >= 0) =>
          /\ retry_result.tag = "raise"
          /\ retry_result.exception = fn_calls[Len(fn_calls)].exception
    /\ (pc = "done" /\ initial_delay < 0 /\ FailedCalls # {}) =>
          /\ Len(fn_calls) = 1
          /\ slept = <<>>
          /\ retry_result = Raised(Exc("ValueError", 0))
    /\ (pc = "done" /\ max_retries = 0) =>
          /\ fn_calls = <<>>
          /\ retry_result = Raised(Exc("TypeError", 0))

\* C25: for a pattern with a wildcard the call raises what os.path.getmtime
\* raises for the first listed link that matches and cannot be followed;
\* in every other case of a pattern of one component it returns the latest
\* of the matching entries that exist, or None when there is none.  "**"
\* gives the directory itself or a directory below it
C25_LatestUnlessLinkBroken ==
    [][FindLatestFiles =>
          LET broken == IF HasWildcard(search_pattern)
                        THEN {i \in NameMatches :
                                 IsBrokenLink(search_directory.entries[i])}
                        ELSE {}
              first == CHOOSE i \in broken : \A j \in broken : i <= j
          IN  /\ search_directory' = search_directory
              /\ output' = output
              /\ IF search_pattern = "**"
                 THEN /\ raised' = NotRaised
                      /\ IF ~search_directory.exists THEN latest' = None
                         ELSE /\ latest' # None
                              /\ latest'.name \in {"", "reports", "reports/old"}
                 ELSE IF broken # {}
                 THEN /\ raised'.function = "find_latest_files"
                      /\ raised'.exception =
                            IF search_directory.entries[first].link = "dangling"
                            THEN "FileNotFoundError" ELSE "PermissionError"
                 ELSE /\ raised' = NotRaised
                      /\ IF Matching = {} THEN latest' = None
                         ELSE \E i \in Matching :
                                /\ latest' = [parent |-> search_directory.path,
                                              name |-> search_directory.entries[i].name]
                                /\ \A j \in Matching :
                                      search_directory.entries[i].mtime >=
                                          search_directory.entries[j].mtime]_vars

\* C30: when no storage or network benchmark that main looks for is a link
\* that cannot be followed, the result is that of the run without the two
\* files
C30_IgnoredUnlessLinkBroken ==
    (pc \in {"done", "aborted"} /\ ~SearchFails("storage") /\ ~SearchFails("network")) =>
        /\ LET without == RunAnalysis(WithoutOtherBenchmarks, args_type, threshold,
                                      unwritable)
           IN  /\ analysis_results = without.analysis_results
               /\ charts = without.charts
               /\ AnalysisRaised = without.raised
        /\ args_type \in {"storage", "network"} =>
              LET none == RunAnalysis(WithoutBenchmarks, "all", threshold, unwritable)
              IN  /\ analysis_results = none.analysis_results
                  /\ charts = none.charts
        /\ (args_type = "transaction" /\ Identified) =>
              /\ OfType("shard_creation_scalability") = <<>>
              /\ OfType("cross_shard_scalability") = <<>>

\* a run of --type all that found a storage benchmark link without a target
\* beside readable files: it ended in find_latest_files with no analysis
C30_LinkEndsRun ==
    /\ pc = "aborted"
    /\ args_type = "all"
    /\ files.storage.state = "dangling"
    /\ files.transaction.state = "readable"
    /\ raised = [exception |-> "FileNotFoundError", function |-> "find_latest_files"]
    /\ "transaction" \in DOMAIN benchmark_results
    /\ analysis_results = EmptyDict

====
